---- MODULE Spec2Model ----
(***************************************************************************)
(* State-machine model of the quota-governed retrieval and caching layer   *)
(* of the backend: SimpleCache and APIUsageTracker                         *)
(* (services/recommendations.py), ProductSearchService                     *)
(* (services/product_search.py) and RateLimitMiddleware                    *)
(* (middleware/security.py).                                               *)
(*                                                                         *)
(* Strings that the code inspects character by character (cache keys,      *)
(* request paths) are sequences of one-character strings.  Times are whole *)
(* seconds unless stated otherwise.                                        *)
(***************************************************************************)
EXTENDS Integers, Sequences, FiniteSets, TLC

VARIABLES
    now,             \* wall clock (time.time()), seconds
    steps,           \* number of clock advances and cache stores taken so far
    sections_cache,  \* RecommendationService._sections_cache._cache
    lastSet,         \* history: per key, the latest set() not yet invalidated
    swept,           \* history: clear_expired() has run at least once
    ret,             \* the last completed call and what it returned
    calls_today,     \* api_tracker._calls_today
    last_reset_date, \* api_tracker._last_reset_date, as a day number
    usage,           \* history: [day, count] of the record_call() calls of a day
    requests,        \* RateLimitMiddleware._requests: key -> list of (ts, count)
    last_cleanup,    \* RateLimitMiddleware._last_cleanup
    admitted,        \* history: per <<client, path>>, the times of the requests
                     \* passed to the handler, oldest first
    rejected,        \* history: per <<client, path>>, the times of the requests
                     \* answered 429, oldest first
    search_cache,    \* ProductSearchService._search_cache._cache
    last_request_time, \* ProductSearchService._last_request_time
    api_key_set,     \* settings.SERPAPI_API_KEY is configured
    pass,            \* per slot, the search_products invocation in progress
    searches,        \* number of search_products invocations begun
    scenario,        \* which inputs a behaviour draws from
    rec_cache,       \* RecommendationService._search_cache._cache
    rec_last_request_time, \* RecommendationService._last_request_time
    rec,             \* the RecommendationService._search_products call in progress
    last_sent,       \* history: the time of the last request sent to the provider
    min_gap,         \* history: the least time between two requests sent to the
                     \* provider, NoGap before the second request
    last_outcome,    \* history: the last answer of the provider and what the
                     \* search step did with it
    requests_sent,   \* history: the day of the last request sent to the provider
                     \* and the number of requests sent on that day
    user,            \* per user id, the User row: tier, scan counter, reset time,
                     \* and the number of SearchHistory rows of the user
    search_call,     \* per user id, the search handler in progress
    generation,      \* per user id, the get_recommendation_sections call in progress
    invalidated      \* history: per user id, the number of SearchHistory rows when
                     \* invalidate_user_recommendations last returned

cacheVars == <<sections_cache, lastSet, swept>>
quotaVars == <<calls_today, last_reset_date, usage>>
rateVars == <<requests, last_cleanup, admitted, rejected>>
searchVars == <<search_cache, last_request_time, api_key_set, pass, searches, scenario>>
recVars == <<rec_cache, rec_last_request_time, rec>>
userVars == <<user, search_call, generation, invalidated>>
provVars == <<last_sent, min_gap, last_outcome, requests_sent>>
vars == <<now, steps, ret, cacheVars, quotaVars, rateVars, searchVars, recVars, userVars, provVars>>

(***************************************************************************)
(* Bounds of the exploration.                                              *)
(***************************************************************************)
MaxSteps == 4
MaxOver == 2
MaxRateSteps == 3

(***************************************************************************)
(* Python's None, and the record of "no call yet".                         *)
(***************************************************************************)
None == "None"
IdleRec == [pc |-> "idle", query |-> <<>>, limit |-> 0, sent |-> 0, wake |-> 0]
NoSend == -1
NoGap == -1
NoOutcome == [path |-> "none", slot |-> 0, key |-> <<>>, kind |-> "none", attempt |-> 0,
              done |-> FALSE, returned |-> <<>>, at |-> 0]
NoEntry == [value |-> None, at |-> -1, overwrote |-> FALSE]
NoCall == [op |-> "none", key |-> <<>>, value |-> None, count |-> 0,
           existed |-> FALSE, user |-> 0, at |-> 0, allowed |-> FALSE,
           client |-> <<>>, path |-> <<>>, status |-> 0, handled |-> FALSE,
           limit |-> 0, remaining |-> 0, reset_time |-> 0,
           retry_after |-> 0, retry_header |-> 0,
           call |-> <<>>, products |-> <<>>, merged |-> <<>>, sent |-> 0,
           stage |-> 0, first |-> <<>>, second |-> <<>>,
           version |-> 0, floor |-> 0]

(***************************************************************************)
(* Strings as character sequences.                                         *)
(***************************************************************************)
StartsWith(s, p) == Len(p) <= Len(s) /\ SubSeq(s, 1, Len(p)) = p

DigitChars == <<"0", "1", "2", "3", "4", "5", "6", "7", "8", "9">>

RECURSIVE IntToStr(_)
IntToStr(n) ==
    IF n < 10 THEN <<DigitChars[n + 1]>>
    ELSE IntToStr(n \div 10) \o <<DigitChars[(n % 10) + 1]>>

TierStr(tier) ==
    CASE tier = "free" -> <<"f", "r", "e", "e">>
      [] tier = "basic" -> <<"b", "a", "s", "i", "c">>
      [] tier = "pro" -> <<"p", "r", "o">>
      [] tier = "unlimited" -> <<"u", "n", "l", "i", "m", "i", "t", "e", "d">>

SectionsWord == <<"s", "e", "c", "t", "i", "o", "n", "s">>

\* f"sections:{user.id}:{user.subscription_tier or 'free'}"
SectionsKey(uid, tier) ==
    SectionsWord \o <<":">> \o IntToStr(uid) \o <<":">> \o TierStr(tier)

\* f"sections:{user_id}:"
InvalidateUserPrefixNoColon(uid) == SectionsWord \o <<":">> \o IntToStr(uid)
InvalidateUserPrefix(uid) == SectionsWord \o <<":">> \o IntToStr(uid) \o <<":">>

(***************************************************************************)
(* SimpleCache: a dict key -> (value, timestamp) with a fixed ttl.         *)
(***************************************************************************)
SECTIONS_TTL == 3600

Fresh(c, ttl, k, t) == k \in DOMAIN c /\ t - c[k].timestamp < ttl
FreshInclusive(c, ttl, k, t) == k \in DOMAIN c /\ t - c[k].timestamp <= ttl

Without(c, ks) == [k \in DOMAIN c \ ks |-> c[k]]

\* SimpleCache.get: the value returned, and the dict it leaves behind.
CacheGetValueInclusive(c, ttl, k, t) ==
    IF FreshInclusive(c, ttl, k, t) THEN c[k].value ELSE None
CacheGetValue(c, ttl, k, t) == IF Fresh(c, ttl, k, t) THEN c[k].value ELSE None

CacheGetStoreKeep(c, ttl, k, t) == c
CacheGetStore(c, ttl, k, t) ==
    IF k \in DOMAIN c /\ ~Fresh(c, ttl, k, t) THEN Without(c, {k}) ELSE c

\* SimpleCache.set
CacheSetKeepStamp(c, k, v, t) ==
    [x \in DOMAIN c \cup {k} |->
        IF x = k
        THEN [value |-> v, timestamp |-> IF k \in DOMAIN c THEN c[k].timestamp ELSE t]
        ELSE c[x]]
CacheSet(c, k, v, t) ==
    [x \in DOMAIN c \cup {k} |->
        IF x = k THEN [value |-> v, timestamp |-> t] ELSE c[x]]

\* SimpleCache.invalidate
CacheInvalidateFound(c, k) == k \in DOMAIN c
CacheInvalidateStore(c, k) == Without(c, {k})

\* SimpleCache.invalidate_prefix
KeysToRemove(c, prefix) == {k \in DOMAIN c : StartsWith(k, prefix)}
CacheInvalidatePrefixCount(c, prefix) == Cardinality(KeysToRemove(c, prefix))
CacheInvalidatePrefixStore(c, prefix) == Without(c, KeysToRemove(c, prefix))

\* SimpleCache.clear_expired
ExpiredKeys(c, ttl, t) == {k \in DOMAIN c : t - c[k].timestamp >= ttl}
CacheClearExpired(c, ttl, t) == Without(c, ExpiredKeys(c, ttl, t))

(***************************************************************************)
(* The sections cache driven by its callers.                               *)
(***************************************************************************)
UserIds == {4, 42}
TierNames == {"free", "pro"}
SectionKeys == {SectionsKey(u, tr) : u \in UserIds, tr \in TierNames}
SectionValues == {"sectionsA", "sectionsB"}
ClockSteps == {1, SECTIONS_TTL - 1}
Prefixes == {SectionsWord \o <<":", "4">>, SectionsWord, <<"x">>}

InitCache ==
    /\ now = 0
    /\ steps = 0
    /\ sections_cache = <<>>
    /\ lastSet = [k \in SectionKeys |-> NoEntry]
    /\ swept = FALSE
    /\ ret = NoCall
    /\ calls_today = 0
    /\ last_reset_date = 0
    /\ usage = [day |-> 0, count |-> 0]
    /\ requests = <<>>
    /\ last_cleanup = 0
    /\ admitted = <<>>
    /\ rejected = <<>>
    /\ search_cache = <<>>
    /\ last_request_time = 0
    /\ api_key_set = TRUE
    /\ pass = <<>>
    /\ searches = 0
    /\ scenario = "none"
    /\ rec_cache = <<>>
    /\ rec_last_request_time = 0
    /\ rec = IdleRec
    /\ last_sent = NoSend
    /\ min_gap = NoGap
    /\ last_outcome = NoOutcome
    /\ requests_sent = [day |-> 0, count |-> 0]
    /\ user = <<>>
    /\ search_call = <<>>
    /\ generation = <<>>
    /\ invalidated = <<>>

Tick ==
    /\ steps < MaxSteps
    /\ \E d \in ClockSteps : now' = now + d
    /\ steps' = steps + 1
    /\ UNCHANGED <<cacheVars, ret, quotaVars, rateVars, searchVars, recVars, userVars, provVars>>

\* get_recommendation_sections, cache lookup
SectionsGet ==
    \E k \in SectionKeys :
        /\ ret' = [NoCall EXCEPT !.op = "get", !.key = k, !.at = now,
                       !.value = CacheGetValue(sections_cache, SECTIONS_TTL, k, now),
                       !.existed = k \in DOMAIN sections_cache]
        /\ sections_cache' = CacheGetStore(sections_cache, SECTIONS_TTL, k, now)
        /\ UNCHANGED <<now, steps, lastSet, swept, quotaVars, rateVars, searchVars, recVars, userVars, provVars>>

\* get_recommendation_sections, cache store
SectionsSet ==
    /\ steps < MaxSteps
    /\ \E k \in SectionKeys, v \in SectionValues :
        /\ sections_cache' = CacheSet(sections_cache, k, v, now)
        /\ lastSet' = [lastSet EXCEPT ![k] = [value |-> v, at |-> now,
                                            overwrote |-> k \in DOMAIN sections_cache]]
        /\ ret' = [NoCall EXCEPT !.op = "set", !.key = k, !.value = v, !.at = now,
                       !.existed = k \in DOMAIN sections_cache]
    /\ steps' = steps + 1
    /\ UNCHANGED <<now, swept, quotaVars, rateVars, searchVars, recVars, userVars, provVars>>

SectionsInvalidate ==
    \E k \in SectionKeys :
        /\ sections_cache' = CacheInvalidateStore(sections_cache, k)
        /\ lastSet' = [lastSet EXCEPT ![k] = NoEntry]
        /\ ret' = [NoCall EXCEPT !.op = "invalidate", !.key = k,
                       !.existed = CacheInvalidateFound(sections_cache, k)]
        /\ UNCHANGED <<now, steps, swept, quotaVars, rateVars, searchVars, recVars, userVars, provVars>>

\* RecommendationService.invalidate_user_recommendations
InvalidateUser ==
    \E u \in UserIds :
        LET prefix == InvalidateUserPrefix(u) IN
        /\ sections_cache' = CacheInvalidatePrefixStore(sections_cache, prefix)
        /\ lastSet' = [k \in SectionKeys |->
                          IF StartsWith(k, prefix) THEN NoEntry ELSE lastSet[k]]
        /\ ret' = [NoCall EXCEPT !.op = "invalidate_user", !.key = prefix,
                       !.user = u,
                       !.count = CacheInvalidatePrefixCount(sections_cache, prefix),
                       !.existed = CacheInvalidatePrefixCount(sections_cache, prefix) > 0]
        /\ UNCHANGED <<now, steps, swept, quotaVars, rateVars, searchVars, recVars, userVars, provVars>>

\* SimpleCache.invalidate_prefix called with an arbitrary prefix
SectionsInvalidatePrefix ==
    \E prefix \in Prefixes :
        /\ sections_cache' = CacheInvalidatePrefixStore(sections_cache, prefix)
        /\ lastSet' = [k \in SectionKeys |->
                          IF StartsWith(k, prefix) THEN NoEntry ELSE lastSet[k]]
        /\ ret' = [NoCall EXCEPT !.op = "invalidate_prefix", !.key = prefix,
                       !.count = CacheInvalidatePrefixCount(sections_cache, prefix)]
        /\ UNCHANGED <<now, steps, swept, quotaVars, rateVars, searchVars, recVars, userVars, provVars>>

SectionsClearExpired ==
    /\ sections_cache' = CacheClearExpired(sections_cache, SECTIONS_TTL, now)
    /\ swept' = TRUE
    /\ ret' = [NoCall EXCEPT !.op = "clear_expired"]
    /\ UNCHANGED <<now, steps, lastSet, quotaVars, rateVars, searchVars, recVars, userVars, provVars>>

NextCache ==
    \/ Tick
    \/ SectionsGet
    \/ SectionsSet
    \/ SectionsInvalidate
    \/ InvalidateUser
    \/ SectionsInvalidatePrefix
    \/ SectionsClearExpired

SpecCache == InitCache /\ [][NextCache]_vars

(***************************************************************************)
(* C1: a get(key) made while now - storedAt < ttl returns exactly the      *)
(* value of the most recent set(key, .), and a set on a key (new or        *)
(* existing) leaves the entry (value, now) in the store.                   *)
(***************************************************************************)
C1_GetReturnsLastSet ==
    /\ (ret.op = "get" /\ lastSet[ret.key] # NoEntry
            /\ ret.at - lastSet[ret.key].at < SECTIONS_TTL)
        => ret.value = lastSet[ret.key].value
    /\ ret.op = "set"
        => /\ ret.key \in DOMAIN sections_cache
           /\ sections_cache[ret.key] = [value |-> ret.value, timestamp |-> ret.at]

\* a get inside the window, after the key was set twice at different times
\* with different values
C1_Witness ==
    /\ ret.op = "get"
    /\ ret.value = "sectionsB"
    /\ lastSet[ret.key].value = "sectionsB"
    /\ lastSet[ret.key].overwrote
    /\ lastSet[ret.key].at = SECTIONS_TTL - 1
    /\ ret.at = SECTIONS_TTL

(***************************************************************************)
(* C2: get(key) returns absent whenever the key was never stored, was      *)
(* invalidated, or now - storedAt >= ttl, and the key is not in the store  *)
(* afterwards, whether or not clear_expired has run; a get with            *)
(* now - storedAt < ttl never returns absent.                              *)
(***************************************************************************)
C2_ExpiredIsAbsent ==
    ret.op = "get" =>
        IF lastSet[ret.key] = NoEntry \/ ret.at - lastSet[ret.key].at >= SECTIONS_TTL
        THEN ret.value = None /\ ret.key \notin DOMAIN sections_cache
        ELSE ret.value # None

\* a get exactly ttl seconds after the set finds the entry still stored (no
\* sweep has run), reports absent and evicts it
C2_Witness ==
    /\ ret.op = "get"
    /\ ret.existed
    /\ ~swept
    /\ ret.value = None
    /\ ret.at - lastSet[ret.key].at = SECTIONS_TTL
    /\ ret.key \notin DOMAIN sections_cache

(***************************************************************************)
(* C3: invalidate_prefix(p) removes exactly the entries whose key starts   *)
(* with p, leaves every other entry as it was and returns the number       *)
(* removed; invalidate_user_recommendations(u) removes exactly the entries *)
(* of user u (all tier variants) and none of another user.                 *)
(***************************************************************************)
KeysOfUser(u) == {SectionsKey(u, tr) : tr \in TierNames}

RemovedExactly(removed) ==
    /\ DOMAIN sections_cache' = DOMAIN sections_cache \ removed
    /\ \A k \in DOMAIN sections_cache' : sections_cache'[k] = sections_cache[k]
    /\ ret'.count = Cardinality(removed)

C3_PrefixInvalidation ==
    [][/\ (ret'.op = "invalidate_prefix" /\ UNCHANGED <<now, steps>>)
          => RemovedExactly({k \in DOMAIN sections_cache : StartsWith(k, ret'.key)})
       /\ (ret'.op = "invalidate_user" /\ UNCHANGED <<now, steps>>)
          => RemovedExactly(DOMAIN sections_cache \cap KeysOfUser(ret'.user))]_vars

\* invalidating user 4 removed both tier variants while an entry of user 42
\* stays in the store
C3_Witness ==
    /\ ret.op = "invalidate_user"
    /\ ret.user = 4
    /\ ret.count = 2
    /\ SectionsKey(42, "free") \in DOMAIN sections_cache


(***************************************************************************)
(* APIUsageTracker: the process-wide daily budget of provider calls.       *)
(***************************************************************************)
DAILY_LIMIT == 50
SECONDS_PER_DAY == 86400

\* datetime.now().date(), as a day number
Today(t) == t \div SECONDS_PER_DAY

\* APIUsageTracker._maybe_reset: the counter and the date it leaves
MaybeResetCallsAlways(calls, last, today) == IF today >= last THEN 0 ELSE calls
MaybeResetCalls(calls, last, today) == IF today > last THEN 0 ELSE calls
MaybeResetDate(calls, last, today) == IF today > last THEN today ELSE last

\* APIUsageTracker.can_make_call, after _maybe_reset
UnderLimitInclusive(calls) == calls <= DAILY_LIMIT
UnderLimit(calls) == calls < DAILY_LIMIT

Max(a, b) == IF a >= b THEN a ELSE b

\* APIUsageTracker.get_remaining, after _maybe_reset
RemainingSigned(calls) == DAILY_LIMIT - calls
Remaining(calls) == Max(0, DAILY_LIMIT - calls)

UsageOn(day) == IF usage.day = day THEN usage.count ELSE 0

QuotaClockSteps == {1, SECONDS_PER_DAY - 1}

InitQuota ==
    /\ now = 0
    /\ steps = 0
    /\ ret = NoCall
    /\ sections_cache = <<>>
    /\ lastSet = [k \in SectionKeys |-> NoEntry]
    /\ swept = FALSE
    /\ calls_today = 0
    /\ last_reset_date = Today(0)
    /\ usage = [day |-> 0, count |-> 0]
    /\ requests = <<>>
    /\ last_cleanup = 0
    /\ admitted = <<>>
    /\ rejected = <<>>
    /\ search_cache = <<>>
    /\ last_request_time = 0
    /\ api_key_set = TRUE
    /\ pass = <<>>
    /\ searches = 0
    /\ scenario = "none"
    /\ rec_cache = <<>>
    /\ rec_last_request_time = 0
    /\ rec = IdleRec
    /\ last_sent = NoSend
    /\ min_gap = NoGap
    /\ last_outcome = NoOutcome
    /\ requests_sent = [day |-> 0, count |-> 0]
    /\ user = <<>>
    /\ search_call = <<>>
    /\ generation = <<>>
    /\ invalidated = <<>>

QuotaTick ==
    /\ steps < MaxSteps
    /\ \E d \in QuotaClockSteps : now' = now + d
    /\ steps' = steps + 1
    /\ UNCHANGED <<ret, cacheVars, quotaVars, rateVars, searchVars, recVars, userVars, provVars>>

CanMakeCall ==
    LET today == Today(now)
        calls == MaybeResetCalls(calls_today, last_reset_date, today)
    IN  /\ calls_today' = calls
        /\ last_reset_date' = MaybeResetDate(calls_today, last_reset_date, today)
        /\ ret' = [NoCall EXCEPT !.op = "can_make_call", !.at = now,
                       !.allowed = UnderLimit(calls),
                       !.count = calls_today,
                       !.existed = last_reset_date # today]
        /\ UNCHANGED <<now, steps, cacheVars, usage, rateVars, searchVars, recVars, userVars, provVars>>

RecordCall ==
    LET today == Today(now)
        calls == MaybeResetCalls(calls_today, last_reset_date, today)
    IN  /\ calls < DAILY_LIMIT + MaxOver
        /\ calls_today' = calls + 1
        /\ last_reset_date' = MaybeResetDate(calls_today, last_reset_date, today)
        /\ usage' = [day |-> today, count |-> UsageOn(today) + 1]
        /\ ret' = [NoCall EXCEPT !.op = "record_call", !.at = now,
                       !.count = calls_today,
                       !.existed = last_reset_date # today]
        /\ UNCHANGED <<now, steps, cacheVars, rateVars, searchVars, recVars, userVars, provVars>>

GetRemaining ==
    LET today == Today(now)
        calls == MaybeResetCalls(calls_today, last_reset_date, today)
    IN  /\ calls_today' = calls
        /\ last_reset_date' = MaybeResetDate(calls_today, last_reset_date, today)
        /\ ret' = [NoCall EXCEPT !.op = "get_remaining", !.at = now,
                       !.count = Remaining(calls),
                       !.existed = last_reset_date # today]
        /\ UNCHANGED <<now, steps, cacheVars, usage, rateVars, searchVars, recVars, userVars, provVars>>

\* GET /api/analytics/api-usage: the dict is built left to right, so
\* _calls_today is read before get_remaining() runs _maybe_reset
GetApiUsage ==
    LET today == Today(now)
        calls == MaybeResetCalls(calls_today, last_reset_date, today)
    IN  /\ calls_today' = calls
        /\ last_reset_date' = MaybeResetDate(calls_today, last_reset_date, today)
        /\ ret' = [NoCall EXCEPT !.op = "get_api_usage", !.at = now,
                       !.count = calls_today,
                       !.limit = DAILY_LIMIT,
                       !.remaining = Remaining(calls),
                       !.allowed = UnderLimit(calls),
                       !.existed = last_reset_date # today]
        /\ UNCHANGED <<now, steps, cacheVars, usage, rateVars, searchVars, recVars, userVars, provVars>>

NextQuota ==
    \/ QuotaTick
    \/ CanMakeCall
    \/ RecordCall
    \/ GetRemaining
    \/ GetApiUsage

SpecQuota == InitQuota /\ [][NextQuota]_vars

(***************************************************************************)
(* C4: can_make_call() returns false exactly when the number of calls      *)
(* recorded on the current calendar day is at least DAILY_LIMIT; when the  *)
(* stored date differs from the current day the counter is reset to 0 and  *)
(* the current day adopted before the comparison, so the call returns true.*)
(***************************************************************************)
C4_CanCallIffUnderLimit ==
    ret.op = "can_make_call" =>
        /\ ret.allowed = (UsageOn(Today(ret.at)) < DAILY_LIMIT)
        /\ last_reset_date = Today(ret.at)
        /\ calls_today = UsageOn(Today(ret.at))
        /\ ret.existed => (calls_today = 0 /\ ret.allowed)

\* the first evaluation after a day boundary, the budget of the day before
\* having been used up
C4_Witness ==
    /\ ret.op = "can_make_call"
    /\ ret.existed
    /\ ret.count >= DAILY_LIMIT
    /\ ret.allowed
    /\ calls_today = 0

\* an evaluation that returns false
C4_WitnessExhausted ==
    /\ ret.op = "can_make_call"
    /\ ~ret.allowed
    /\ calls_today = DAILY_LIMIT


(***************************************************************************)
(* RateLimitMiddleware: the per-client sliding-window admission gate.      *)
(* In this part `now` counts ticks of 1/TicksPerSecond seconds, so that    *)
(* int(time.time()) truncates.                                             *)
(***************************************************************************)
TicksPerSecond == 2
WINDOW_SECONDS == 60
CLEANUP_INTERVAL == 60
DEFAULT_LIMIT == 120

Window == WINDOW_SECONDS * TicksPerSecond

\* int(t) for a time t given in ticks
IntSeconds(t) == t \div TicksPerSecond

PathLogin == <<"/", "a", "p", "i", "/", "a", "u", "t", "h", "/", "l", "o", "g", "i", "n">>
PathRegister == <<"/", "a", "p", "i", "/", "a", "u", "t", "h", "/", "r", "e", "g", "i", "s", "t", "e", "r">>
PathMe == <<"/", "a", "p", "i", "/", "a", "u", "t", "h", "/", "m", "e">>
PathFavorites == <<"/", "a", "p", "i", "/", "f", "a", "v", "o", "r", "i", "t", "e", "s">>
PathGamification == <<"/", "a", "p", "i", "/", "g", "a", "m", "i", "f", "i", "c", "a", "t", "i", "o", "n">>
PathHealth == <<"/", "h", "e", "a", "l", "t", "h">>
PathDocs == <<"/", "d", "o", "c", "s">>

\* RateLimitMiddleware._limits, in the dict's insertion order
Limits == <<
    [prefix |-> <<"/", "a", "p", "i", "/", "a", "u", "t", "h", "/", "l", "o", "g", "i", "n">>, limit |-> 10],
    [prefix |-> <<"/", "a", "p", "i", "/", "a", "u", "t", "h", "/", "r", "e", "g", "i", "s", "t", "e", "r">>, limit |-> 5],
    [prefix |-> <<"/", "a", "p", "i", "/", "a", "u", "t", "h", "/">>, limit |-> 20],
    [prefix |-> <<"/", "a", "p", "i", "/", "s", "e", "a", "r", "c", "h", "/">>, limit |-> 60],
    [prefix |-> <<"/", "a", "p", "i", "/", "c", "h", "a", "t", "/">>, limit |-> 30],
    [prefix |-> <<"/", "a", "p", "i", "/", "s", "u", "b", "s", "c", "r", "i", "p", "t", "i", "o", "n", "/", "w", "e", "b", "h", "o", "o", "k">>, limit |-> 100],
    [prefix |-> <<"/", "a", "p", "i", "/">>, limit |-> 120] >>

MatchingIndexes(path) == {i \in 1..Len(Limits) : StartsWith(path, Limits[i].prefix)}

Min(S) == CHOOSE x \in S : \A y \in S : x <= y

\* RateLimitMiddleware._get_limit_for_path: the first matching entry
GetLimitForPathLast(path) ==
    IF MatchingIndexes(path) = {} THEN DEFAULT_LIMIT
    ELSE Limits[CHOOSE i \in MatchingIndexes(path) :
                    \A j \in MatchingIndexes(path) : j <= i].limit
GetLimitForPath(path) ==
    IF MatchingIndexes(path) = {} THEN DEFAULT_LIMIT
    ELSE Limits[Min(MatchingIndexes(path))].limit

\* str.split(sep)
RECURSIVE Split(_, _)
Split(s, sep) ==
    IF \A i \in 1..Len(s) : s[i] # sep THEN <<s>>
    ELSE LET i == Min({j \in 1..Len(s) : s[j] = sep})
         IN  <<SubSeq(s, 1, i - 1)>> \o Split(SubSeq(s, i + 1, Len(s)), sep)

\* f"{ip}:{path.split('/')[2] if len(path.split('/')) > 2 else 'root'}"
RateKey(ip, path) ==
    LET parts == Split(path, "/")
    IN  ip \o <<":">> \o (IF Len(parts) > 2 THEN parts[3] ELSE <<"r", "o", "o", "t">>)

\* RateLimitMiddleware._get_client_ip; forwarded is the X-Forwarded-For
\* header split at commas, <<>> when the header is missing
GetClientIp(req) ==
    IF req.forwarded # <<>> THEN req.forwarded[1] ELSE req.host

\* dispatch: the paths that skip rate limiting
Exempt(path) ==
    \/ path = <<"/">>
    \/ path = PathHealth
    \/ StartsWith(path, <<"/", "s", "t", "a", "t", "i", "c">>)

\* the entries of a list that are inside the window starting at `start`
InWindow(list, start) == LET Keep(e) == e.ts > start IN SelectSeq(list, Keep)

\* sum(c for _, c in list), adding the two halves of the list
RECURSIVE SumCounts(_)
SumCounts(list) ==
    IF list = <<>> THEN 0
    ELSE IF Len(list) = 1 THEN list[1].count
    ELSE LET h == Len(list) \div 2
         IN  SumCounts(SubSeq(list, 1, h)) + SumCounts(SubSeq(list, h + 1, Len(list)))

EntriesOf(reqs, key) == IF key \in DOMAIN reqs THEN reqs[key] ELSE <<>>

\* RateLimitMiddleware._cleanup_old_entries
CleanupDue(t, last) == ~(t - last < CLEANUP_INTERVAL * TicksPerSecond)
CleanedRequests(reqs, t) ==
    LET cutoff == t - Window
        kept == {k \in DOMAIN reqs : InWindow(reqs[k], cutoff) # <<>>}
    IN  [k \in kept |-> InWindow(reqs[k], cutoff)]

\* RateLimitMiddleware._check_rate_limit: the decision and its metadata
RejectsStrict(count, limit) == count > limit
Rejects(count, limit) == count >= limit

\* _check_rate_limit: the list of the key after a request at time t was
\* turned away (the early return precedes the append)
RejectedRecorded(counted, t) == Append(counted, [ts |-> t, count |-> 1])
Rejected(counted, t) == counted

ResetTime(window_start) == IntSeconds(window_start + Window)

ClientA == <<"a">>
ClientB == <<"b">>
ProxyHost == <<"p">>
RateRequests == {[forwarded |-> <<ClientA, ProxyHost>>, host |-> ProxyHost],
                 [forwarded |-> <<>>, host |-> ClientB]}
RatePaths == {PathLogin, PathRegister, PathMe, PathFavorites, PathGamification,
              PathHealth}
RateClockSteps == {1, Window - 1}

\* the states reached by a burst of requests of one client to one path at time 0
Bursts ==
    {[client |-> ClientA, path |-> PathHealth, n |-> 0]} \cup
    {[client |-> ClientA, path |-> p, n |-> GetLimitForPath(p) - 1] :
        p \in {PathLogin, PathRegister, PathMe, PathFavorites}} \cup
    {[client |-> ClientA, path |-> PathLogin, n |-> GetLimitForPath(PathLogin)]}

InitRate ==
    /\ now = 0
    /\ steps = 0
    /\ ret = NoCall
    /\ sections_cache = <<>>
    /\ lastSet = [k \in SectionKeys |-> NoEntry]
    /\ swept = FALSE
    /\ calls_today = 0
    /\ last_reset_date = 0
    /\ usage = [day |-> 0, count |-> 0]
    /\ search_cache = <<>>
    /\ last_request_time = 0
    /\ api_key_set = TRUE
    /\ pass = <<>>
    /\ searches = 0
    /\ scenario = "none"
    /\ rec_cache = <<>>
    /\ rec_last_request_time = 0
    /\ rec = IdleRec
    /\ last_sent = NoSend
    /\ min_gap = NoGap
    /\ last_outcome = NoOutcome
    /\ requests_sent = [day |-> 0, count |-> 0]
    /\ user = <<>>
    /\ search_call = <<>>
    /\ generation = <<>>
    /\ invalidated = <<>>
    /\ last_cleanup = 0
    /\ \E b \in Bursts :
        /\ requests = IF b.n = 0 THEN <<>>
                      ELSE RateKey(b.client, b.path) :>
                               [i \in 1..b.n |-> [ts |-> 0, count |-> 1]]
        /\ admitted = IF b.n = 0 THEN <<>>
                      ELSE <<b.client, b.path>> :> [i \in 1..b.n |-> 0]
    /\ rejected = <<>>

RateTick ==
    /\ steps < MaxRateSteps
    /\ \E d \in RateClockSteps : now' = now + d
    /\ steps' = steps + 1
    /\ UNCHANGED <<ret, cacheVars, quotaVars, rateVars, searchVars, recVars, userVars, provVars>>

\* RateLimitMiddleware.dispatch for an exempt path
DispatchExempt ==
    /\ steps < MaxRateSteps
    /\ \E req \in RateRequests, path \in RatePaths :
        /\ Exempt(path)
        /\ ret' = [NoCall EXCEPT !.op = "dispatch", !.at = now, !.path = path,
                       !.client = GetClientIp(req), !.status = 200,
                       !.handled = TRUE]
    /\ steps' = steps + 1
    /\ UNCHANGED <<now, cacheVars, quotaVars, rateVars, searchVars, recVars, userVars, provVars>>

\* RateLimitMiddleware.dispatch: cleanup, check, then the handler or a 429
Dispatch ==
    /\ steps < MaxRateSteps
    /\ \E req \in RateRequests, path \in RatePaths :
        LET due == CleanupDue(now, last_cleanup)
            cleaned == IF due THEN CleanedRequests(requests, now) ELSE requests
            ip == GetClientIp(req)
            limit == GetLimitForPath(path)
            window_start == now - Window
            key == RateKey(ip, path)
            counted == InWindow(EntriesOf(cleaned, key), window_start)
            request_count == SumCounts(counted)
            remaining == Max(0, limit - request_count)
            reset_time == ResetTime(window_start)
            store(list) == [k \in DOMAIN cleaned \cup {key} |->
                               IF k = key THEN list ELSE cleaned[k]]
        IN  /\ ~Exempt(path)
            /\ last_cleanup' = IF due THEN now ELSE last_cleanup
            /\ IF Rejects(request_count, limit)
               THEN \E d1 \in {0, 1}, d2 \in {0, 1} :
                       /\ d1 <= d2
                       /\ requests' = store(Rejected(counted, now))
                       /\ admitted' = admitted
                       /\ rejected' = [k \in DOMAIN rejected \cup {<<ip, path>>} |->
                                           IF k = <<ip, path>>
                                           THEN Append(EntriesOf(rejected, k), now)
                                           ELSE rejected[k]]
                       /\ now' = now + d2
                       /\ ret' = [NoCall EXCEPT !.op = "dispatch", !.at = now,
                                      !.path = path, !.client = ip, !.status = 429,
                                      !.handled = FALSE, !.limit = limit,
                                      !.remaining = 0, !.reset_time = reset_time,
                                      !.retry_after = reset_time - IntSeconds(now + d1),
                                      !.retry_header = reset_time - IntSeconds(now + d2)]
               ELSE /\ requests' = store(Append(counted, [ts |-> now, count |-> 1]))
                    /\ admitted' = [k \in DOMAIN admitted \cup {<<ip, path>>} |->
                                        IF k = <<ip, path>>
                                        THEN Append(EntriesOf(admitted, k), now)
                                        ELSE admitted[k]]
                    /\ rejected' = rejected
                    /\ now' = now
                    /\ ret' = [NoCall EXCEPT !.op = "dispatch", !.at = now,
                                   !.path = path, !.client = ip, !.status = 200,
                                   !.handled = TRUE, !.limit = limit,
                                   !.remaining = remaining - 1,
                                   !.reset_time = reset_time]
    /\ steps' = steps + 1
    /\ UNCHANGED <<cacheVars, quotaVars, searchVars, recVars, userVars, provVars>>

NextRate ==
    \/ RateTick
    \/ DispatchExempt
    \/ Dispatch

SpecRate == InitRate /\ [][NextRate]_vars

\* the requests of ret's client to ret's path admitted in the 60 seconds
\* before ret's request, that request itself not counted
PriorAdmitted ==
    LET Recent(at) == at > ret.at - Window
    IN  Len(SelectSeq(EntriesOf(admitted, <<ret.client, ret.path>>), Recent))
            - (IF ret.handled THEN 1 ELSE 0)

C10_RetryAfterUntilOldestExpires ==
    (ret.op = "dispatch" /\ ret.status = 429)
    => LET oldest == requests[RateKey(ret.client, ret.path)][1].ts
           exact == (oldest + Window) - ret.at
       IN  /\ exact - TicksPerSecond < ret.retry_after * TicksPerSecond
           /\ ret.retry_after * TicksPerSecond < exact + TicksPerSecond

(***************************************************************************)
(* ProductSearchService: query strings.                                    *)
(***************************************************************************)
MAX_QUERY_LENGTH == 100
KEEP_AT_LEAST == 50

Space == " "

\* sep.join(parts)
RECURSIVE Join(_, _)
Join(parts, sep) ==
    IF parts = <<>> THEN <<>>
    ELSE IF Len(parts) = 1 THEN parts[1]
    ELSE parts[1] \o sep \o Join(Tail(parts), sep)

\* str.split(): the words between runs of spaces
NonEmpty(parts) == LET Keep(w) == w # <<>> IN SelectSeq(parts, Keep)
SplitWords(s) == NonEmpty(Split(s, Space))

\* str.strip()
Strip(s) ==
    LET idx == {i \in 1..Len(s) : s[i] # Space}
    IN  IF idx = {} THEN <<>>
        ELSE SubSeq(s, Min(idx), CHOOSE i \in idx : \A j \in idx : j <= i)

\* str.rfind(" "), 0-based, -1 when there is none
RFindSpace(s) ==
    LET idx == {i \in 1..Len(s) : s[i] = Space}
    IN  IF idx = {} THEN -1 ELSE (CHOOSE i \in idx : \A j \in idx : j <= i) - 1

\* ProductSearchService._truncate_query
TruncateQuery(query) ==
    LET q == Join(SplitWords(query), <<Space>>)
        truncated == SubSeq(q, 1, MAX_QUERY_LENGTH)
        last_space == RFindSpace(truncated)
    IN  IF Len(q) <= MAX_QUERY_LENGTH THEN q
        ELSE IF last_space > KEEP_AT_LEAST THEN Strip(SubSeq(truncated, 1, last_space))
        ELSE Strip(truncated)

WordAffordable == <<"a", "f", "f", "o", "r", "d", "a", "b", "l", "e">>

\* the GeminiAnalysis values searched for; <<>> is None or the empty list
AnalysisBranded ==
    [brand |-> <<"A", "c", "m", "e">>, colors |-> <<<<"r", "e", "d">>>>,
     item_type |-> <<"s", "n", "e", "a", "k", "e", "r", "s">>, style |-> <<"c", "a", "s", "u", "a", "l">>,
     material |-> <<"l", "e", "a", "t", "h", "e", "r">>]
AnalysisUnbranded ==
    [brand |-> <<>>, colors |-> <<>>,
     item_type |-> <<"j", "a", "c", "k", "e", "t">>,
     style |->
        <<"r", "e", "l", "a", "x", "e", "d", " ", "o", "v", "e", "r", "s", "i",
          "z", "e", "d", " ", "v", "i", "n", "t", "a", "g", "e", " ", "i",
          "n", "s", "p", "i", "r", "e", "d", " ", "s", "t", "r", "e", "e",
          "t", "w", "e", "a", "r", " ", "s", "i", "l", "h", "o", "u", "e",
          "t", "t", "e", " ", "w", "i", "t", "h", " ", "d", "r", "o", "p",
          "p", "e", "d", " ", "s", "h", "o", "u", "l", "d", "e", "r", "s",
          " ", "a", "n", "d", " ", "r", "i", "b", "b", "e", "d", " ", "c",
          "u", "f", "f", "s">>,
     material |-> <<>>]

\* gender_prefix of search_products
GenderPrefix(gender) ==
    CASE gender = "male" -> <<"m", "e", "n", "'", "s", " ">>
      [] gender = "female" -> <<"w", "o", "m", "e", "n", "'", "s", " ">>
      [] OTHER -> <<>>

Opt(part) == IF part # <<>> THEN <<part>> ELSE <<>>
FirstColor(analysis) == IF analysis.colors # <<>> THEN <<analysis.colors[1]>> ELSE <<>>

\* ProductSearchService._build_exact_query
BuildExactQuery(analysis, gender_prefix) ==
    Join(Opt(Strip(gender_prefix)) \o Opt(analysis.brand) \o FirstColor(analysis)
             \o <<analysis.item_type>>, <<Space>>)

\* ProductSearchService._build_alternative_query
BuildAlternativeQuery(analysis, gender_prefix) ==
    Join(Opt(Strip(gender_prefix)) \o FirstColor(analysis) \o <<analysis.item_type>>
             \o Opt(analysis.style) \o <<WordAffordable>>, <<Space>>)

\* ProductSearchService._build_style_query
BuildStyleQuery(analysis, gender_prefix) ==
    Join(Opt(Strip(gender_prefix)) \o Opt(analysis.style) \o FirstColor(analysis)
             \o <<analysis.item_type>> \o Opt(analysis.material), <<Space>>)

\* ProductSearchService._get_tier_limits
TierLimitsTable(tier) ==
    CASE tier = "free" ->
            [exact_limit |-> 10, alt_limit |-> 15, max_total |-> 15, include_budget |-> FALSE]
      [] tier = "basic" ->
            [exact_limit |-> 15, alt_limit |-> 20, max_total |-> 25, include_budget |-> TRUE]
      [] tier = "pro" ->
            [exact_limit |-> 25, alt_limit |-> 30, max_total |-> 40, include_budget |-> TRUE]
      [] tier = "unlimited" ->
            [exact_limit |-> 35, alt_limit |-> 40, max_total |-> 60, include_budget |-> TRUE]

KnownTiers == {"free", "basic", "pro", "unlimited"}

GetTierLimitsUnknownUnlimited(tier) ==
    TierLimitsTable(IF tier \in KnownTiers THEN tier ELSE "unlimited")
GetTierLimits(tier) == TierLimitsTable(IF tier \in KnownTiers THEN tier ELSE "free")

(***************************************************************************)
(* ProductSearchService: products, provider responses, merging, ranking.   *)
(***************************************************************************)
SIM_EXACT_LOW == 92
SIM_EXACT_HIGH == 99
SIM_ALT_LOW == 75
SIM_ALT_HIGH == 89
SIM_BRAND_FLOOR == 94
ID_RAND_LOW == 1000
ID_RAND_HIGH == 9999
MIN_PRICE_CENTS == 1
FALLBACK_FLOOR == 5
STYLE_NUM_RESULTS == 15
REFERENCE_NUM_RESULTS == 5
EXACT_EXTRA_RESULTS == 15
ALT_EXTRA_RESULTS == 10

\* random.randint(low, high): the draw for the item at position i of a
\* response, under one of the enumerated outcomes of the generator
RandInt(tape, i, low, high) ==
    CASE tape = "flat" -> low
      [] tape = "up" -> low + (i % (high - low + 1))
      [] tape = "down" -> high - (i % (high - low + 1))

\* the id of a product: item.get("product_id", f"serp_{i}_{random...}")
ProductId(item, i, tape) ==
    IF item.product_id # 0
    THEN [kind |-> "product_id", n |-> item.product_id, r |-> 0]
    ELSE [kind |-> "serp", n |-> i, r |-> RandInt(tape, i, ID_RAND_LOW, ID_RAND_HIGH)]

\* the price of a product, in cents: extracted_price, else the parsed price
\* string, else 0.0; a price <= 0 becomes 0.01
ProductPrice(item) == IF item.price <= 0 THEN MIN_PRICE_CENTS ELSE item.price

\* the similarity of a product
ProductSimilarity(item, i, tape, analysis, is_exact_match) ==
    LET drawn == IF is_exact_match
                 THEN RandInt(tape, i, SIM_EXACT_LOW, SIM_EXACT_HIGH)
                 ELSE RandInt(tape, i, SIM_ALT_LOW, SIM_ALT_HIGH)
    IN  IF analysis.brand # <<>> /\ item.brand_in_title
        THEN Max(drawn, SIM_BRAND_FLOOR)
        ELSE drawn

Indexes(seq) == [i \in 1..Len(seq) |-> i]

\* _search_serpapi, the loop over shopping_results: items with neither a link
\* nor a title are skipped; i is the 0-based position in the response
ParseResults(items, tape, analysis, is_exact_match) ==
    LET Linked(i) == items[i].linked
        kept == SelectSeq(Indexes(items), Linked)
    IN  [k \in 1..Len(kept) |->
            LET i == kept[k] - 1
                item == items[kept[k]]
            IN  [id |-> ProductId(item, i, tape),
                 price |-> ProductPrice(item),
                 listed_price |-> item.price,   \* history: the provider's price
                 similarity_percentage |->
                     ProductSimilarity(item, i, tape, analysis, is_exact_match)]]

IdsOf(products) == {products[i].id : i \in 1..Len(products)}

\* search_products: all_products.extend(first_products)
Extend(first_products) == first_products

\* search_products: the loop appending the products whose id is not in
\* existing_ids
AppendNew(all_products, more) ==
    LET New(i) == /\ more[i].id \notin IdsOf(all_products)
                  /\ \A j \in 1..(i - 1) : more[j].id # more[i].id
        kept == SelectSeq(Indexes(more), New)
    IN  all_products \o [k \in 1..Len(kept) |-> more[kept[k]]]

\* list.sort(key=...): a stable sort, ascending in the key; keys[i] is the
\* key of seq[i]
StableSortBy(seq, keys) ==
    LET n == Len(seq)
        rank == <<>> \o [i \in 1..n |->
                    Cardinality({j \in 1..n :
                        \/ keys[j] < keys[i]
                        \/ (keys[j] = keys[i] /\ j < i)}) + 1]
    IN  [p \in 1..n |-> seq[CHOOSE i \in 1..n : rank[i] = p]]

Reverse(seq) == [i \in 1..Len(seq) |-> seq[Len(seq) + 1 - i]]

\* all_products.sort(key=lambda p: p.similarity_percentage, reverse=True)
SortBySimilarityReversed(products) ==
    Reverse(StableSortBy(products,
        <<>> \o [i \in 1..Len(products) |-> products[i].similarity_percentage]))
SortBySimilarity(products) ==
    StableSortBy(products,
        <<>> \o [i \in 1..Len(products) |-> 0 - products[i].similarity_percentage])

\* float('inf'), above every price
INFINITE_PRICE == 1000000000

\* all_products.sort(key=lambda p: p.price if p.price > 0 else float('inf'))
SortByPrice(products) ==
    StableSortBy(products,
        <<>> \o [i \in 1..Len(products) |->
                    IF products[i].price > 0 THEN products[i].price ELSE INFINITE_PRICE])

SortForMode(products, search_mode) ==
    IF search_mode = "exact" THEN SortBySimilarity(products) ELSE SortByPrice(products)

\* all_products[:max_results] when there are more than max_results
TrimOneMore(products, max_results) ==
    IF Len(products) > max_results THEN SubSeq(products, 1, max_results + 1) ELSE products
Trim(products, max_results) ==
    IF Len(products) > max_results THEN SubSeq(products, 1, max_results) ELSE products

(***************************************************************************)
(* ProductSearchService.search_products, one step per stretch of code      *)
(* between two awaits.  A slot of `pass` holds one invocation:             *)
(*   pc     where it is: idle, enter (about to call _search_serpapi),      *)
(*          sleep (pacing delay), await (request sent), backoff (the       *)
(*          2 s delay after a 429), await_retry (retry sent)               *)
(*   stage  which query it is at: in exact mode 1 is the primary and 2     *)
(*          the fallback query, in alternatives mode 1 is the reference    *)
(*          and 2 the alternatives query                                   *)
(*   sent   history: the requests this invocation has sent to the provider *)
(***************************************************************************)
SEARCH_TTL == 7200
MIN_REQUEST_INTERVAL == 1
RETRY_DELAY == 2
MaxSearchSteps == 3

\* the wall clock when the first request arrives, in seconds after the
\* services were constructed with _last_request_time = 0
StartTime == 10

IdlePass == [pc |-> "idle", call |-> <<>>, stage |-> 0, all_products |-> <<>>,
             sent |-> 0, wake |-> 0]

\* the query, num_results and is_exact_match of the _search_serpapi call of a stage
StepQuery(call, stage) ==
    LET prefix == GenderPrefix(call.gender)
    IN  IF call.search_mode = "exact"
        THEN IF stage = 1 THEN BuildExactQuery(call.analysis, prefix)
             ELSE BuildStyleQuery(call.analysis, prefix)
        ELSE IF stage = 1 THEN BuildExactQuery(call.analysis, prefix)
             ELSE BuildAlternativeQuery(call.analysis, prefix)
                    \o (IF GetTierLimits(call.tier).include_budget
                        THEN <<Space>> \o WordAffordable ELSE <<>>)

StepNumResults(call, stage) ==
    IF call.search_mode = "exact"
    THEN IF stage = 1 THEN GetTierLimits(call.tier).exact_limit + EXACT_EXTRA_RESULTS
         ELSE STYLE_NUM_RESULTS
    ELSE IF stage = 1 THEN REFERENCE_NUM_RESULTS
         ELSE GetTierLimits(call.tier).alt_limit + ALT_EXTRA_RESULTS

StepIsExact(call, stage) == ~(call.search_mode # "exact" /\ stage = 2)

\* the text hashed into cache_key (the md5 digest is taken to be injective)
CacheKey(call, stage) ==
    <<TruncateQuery(StepQuery(call, stage)), StepNumResults(call, stage),
      StepIsExact(call, stage)>>

FirstStage(call) ==
    IF call.search_mode = "exact" \/ call.analysis.brand # <<>> THEN 1 ELSE 2

\* search_products after a _search_serpapi call has returned `products`:
\* the merged list, and whether another query follows
AfterStepFloorInclusive(ps, products) ==
    IF ps.stage = 1
    THEN [all |-> Extend(products),
          done |-> ps.call.search_mode = "exact"
                      /\ ~(Len(Extend(products)) <= FALLBACK_FLOOR)]
    ELSE [all |-> AppendNew(ps.all_products, products), done |-> TRUE]
AfterStep(ps, products) ==
    IF ps.stage = 1
    THEN [all |-> Extend(products),
          done |-> ps.call.search_mode = "exact"
                      /\ ~(Len(Extend(products)) < FALLBACK_FLOOR)]
    ELSE [all |-> AppendNew(ps.all_products, products), done |-> TRUE]

\* search_products, steps 4 and 5
FinalResult(all_products, call) ==
    Trim(SortForMode(all_products, call.search_mode), GetTierLimits(call.tier).max_total)

\* _search_serpapi returns `products` to search_products in slot p
StepReturns(p, products, t) ==
    LET ps == pass[p]
        nxt == AfterStep(ps, products)
    IN  IF nxt.done
        THEN /\ pass' = [pass EXCEPT ![p] = IdlePass]
             /\ ret' = [NoCall EXCEPT !.op = "search", !.at = t, !.call = ps.call,
                            !.merged = nxt.all,
                            !.products = FinalResult(nxt.all, ps.call),
                            !.sent = ps.sent, !.stage = ps.stage,
                            !.first = IF ps.stage = 1 THEN products
                                      ELSE ps.all_products,
                            !.second = IF ps.stage = 2 THEN products ELSE <<>>]
        ELSE /\ pass' = [pass EXCEPT ![p] = [ps EXCEPT !.pc = "enter", !.stage = 2,
                                                       !.all_products = nxt.all]]
             /\ ret' = ret

\* the provider's raw items
ItemA == [product_id |-> 1, price |-> 1000, brand_in_title |-> TRUE, linked |-> TRUE]
ItemB == [product_id |-> 2, price |-> 500, brand_in_title |-> FALSE, linked |-> TRUE]
ItemC == [product_id |-> 3, price |-> 0, brand_in_title |-> FALSE, linked |-> TRUE]
ItemD == [product_id |-> 4, price |-> 500, brand_in_title |-> TRUE, linked |-> TRUE]
ItemNoId == [product_id |-> 0, price |-> 700, brand_in_title |-> FALSE, linked |-> TRUE]
ItemUnlinked == [product_id |-> 5, price |-> 100, brand_in_title |-> FALSE, linked |-> FALSE]

SmallLists ==
    {<<>>, <<ItemA>>, <<ItemA, ItemA>>, <<ItemB, ItemA>>, <<ItemC, ItemNoId, ItemB>>,
     <<ItemUnlinked, ItemNoId>>, <<ItemB, ItemD, ItemC, ItemA, ItemNoId>>}

BigList(n) ==
    [i \in 1..n |-> [product_id |-> 100 + i, price |-> ((i * 7) % 13) * 100,
                     brand_in_title |-> (i % 3 = 0), linked |-> TRUE]]

Failures == {[kind |-> k, items |-> <<>>, tape |-> "flat"] :
                k \in {"throttled", "http_error", "exception", "error_payload"}}

\* what the provider may answer to a request of the invocation in slot p
Responses(p) ==
    IF scenario = "wide"
    THEN {[kind |-> "ok", items |-> l, tape |-> tp] :
             l \in SmallLists
                   \cup {BigList(GetTierLimits(pass[p].call.tier).max_total + 1)},
             tp \in {"flat", "up"}} \cup Failures
    ELSE IF scenario = "race"
    THEN {[kind |-> "ok", items |-> <<ItemA>>, tape |-> "flat"]}
    ELSE {[kind |-> "ok", items |-> <<ItemA>>, tape |-> "flat"]}
         \cup {f \in Failures : f.kind \in {"throttled", "http_error"}}

\* the invocations a behaviour may start
SearchCalls ==
    IF scenario = "wide"
    THEN {[analysis |-> a.analysis, gender |-> a.gender, tier |-> tr, search_mode |-> m] :
             a \in {[analysis |-> AnalysisBranded, gender |-> "male"],
                    [analysis |-> AnalysisUnbranded, gender |-> "either"]},
             tr \in KnownTiers \cup {"gold"},
             m \in {"exact", "alternatives"}}
    ELSE {[analysis |-> AnalysisBranded, gender |-> "female", tier |-> "free",
           search_mode |-> m] :
             m \in IF scenario = "race" THEN {"exact"} ELSE {"exact", "alternatives"}}

PassSlots == {1}
MaxPasses == 3

\* the slots of a scenario: "race" runs MaxPasses concurrent invocations
SlotsOf(sc) == IF sc = "race" THEN 1..MaxPasses ELSE PassSlots
SearchClockSteps == {SEARCH_TTL - 1, SECONDS_PER_DAY}

InitSearch ==
    /\ now = StartTime
    /\ steps = 0
    /\ ret = NoCall
    /\ sections_cache = <<>>
    /\ lastSet = [k \in SectionKeys |-> NoEntry]
    /\ swept = FALSE
    /\ last_reset_date = Today(0)
    /\ requests = <<>>
    /\ last_cleanup = 0
    /\ admitted = <<>>
    /\ rejected = <<>>
    /\ search_cache = <<>>
    /\ last_request_time = 0
    /\ searches = 0
    /\ rec_cache = <<>>
    /\ rec_last_request_time = 0
    /\ rec = IdleRec
    /\ last_sent = NoSend
    /\ min_gap = NoGap
    /\ user = <<>>
    /\ search_call = <<>>
    /\ generation = <<>>
    /\ invalidated = <<>>
    /\ last_outcome = NoOutcome
    /\ \E sc \in {"wide", "deep", "rec", "race"}, key \in BOOLEAN,
          used \in {0, DAILY_LIMIT - 2, DAILY_LIMIT - 1} :
        /\ scenario = sc
        /\ pass = [p \in SlotsOf(sc) |-> IdlePass]
        /\ api_key_set = key
        /\ sc = "wide" => (used = 0)
        /\ sc = "race" <=> (used = DAILY_LIMIT - 2)
        /\ sc = "race" => key
        /\ calls_today = used
        /\ usage = [day |-> 0, count |-> used]
        /\ requests_sent = [day |-> 0, count |-> used]

\* time passes between invocations (ticks and invocations share the budget `steps`)
SearchTick ==
    /\ scenario \in {"deep", "rec"}
    /\ \A p \in DOMAIN pass : pass[p].pc = "idle"
    /\ rec.pc = "idle"
    /\ steps < MaxSearchSteps
    /\ \E d \in SearchClockSteps : now' = now + d
    /\ steps' = steps + 1
    /\ UNCHANGED <<ret, cacheVars, quotaVars, rateVars, searchVars, recVars, userVars, provVars>>

\* if not settings.SERPAPI_API_KEY
CredentialMissing == ~api_key_set

\* search_products is called; without an API key it returns [] at once
Begin(p) ==
    /\ pass[p].pc = "idle"
    /\ CASE scenario = "wide" -> searches = 0
         [] scenario = "deep" -> steps < MaxSearchSteps
         [] scenario = "race" -> p = searches + 1
         [] OTHER -> FALSE
    /\ searches' = searches + 1
    /\ steps' = IF scenario = "race" THEN steps ELSE steps + 1
    /\ \E call \in SearchCalls :
        IF CredentialMissing
        THEN /\ ret' = [NoCall EXCEPT !.op = "search", !.at = now, !.call = call]
             /\ pass' = pass
        ELSE /\ pass' = [pass EXCEPT ![p] = [IdlePass EXCEPT !.pc = "enter", !.call = call,
                                                 !.stage = FirstStage(call)]]
             /\ ret' = ret
    /\ UNCHANGED <<now, cacheVars, quotaVars, rateVars, search_cache,
                   last_request_time, api_key_set, scenario, recVars, userVars, provVars>>

\* `if cached_result is not None`: a cached empty list is a hit
CacheHitNonEmpty(c, ttl, k, t) == Fresh(c, ttl, k, t) /\ c[k].value # <<>>
CacheHit(c, ttl, k, t) == Fresh(c, ttl, k, t)

\* history of the requests sent to the provider
Sent(t) ==
    /\ last_sent' = t
    /\ min_gap' = IF last_sent = NoSend THEN NoGap
                  ELSE IF min_gap = NoGap THEN t - last_sent
                  ELSE Min({min_gap, t - last_sent})
    /\ last_outcome' = last_outcome
    /\ requests_sent' = [day |-> Today(t),
                         count |-> 1 + (IF requests_sent.day = Today(t)
                                        THEN requests_sent.count ELSE 0)]

\* _search_serpapi sends a request: the call is recorded in the tracker
Send(p, t, next_pc) ==
    LET today == Today(t)
        calls == MaybeResetCalls(calls_today, last_reset_date, today)
    IN  /\ last_request_time' = t
        /\ calls_today' = calls + 1
        /\ last_reset_date' = MaybeResetDate(calls_today, last_reset_date, today)
        /\ usage' = [day |-> today, count |-> UsageOn(today) + 1]
        /\ pass' = [pass EXCEPT ![p].pc = next_pc, ![p].sent = @ + 1]
        /\ Sent(t)

\* _search_serpapi up to its first await: cache, quota gate, pacing
Enter(p) ==
    LET ps == pass[p]
        key == CacheKey(ps.call, ps.stage)
        today == Today(now)
        calls == MaybeResetCalls(calls_today, last_reset_date, today)
        time_since_last == now - last_request_time
    IN  /\ ps.pc = "enter"
        /\ search_cache' = CacheGetStore(search_cache, SEARCH_TTL, key, now)
        /\ IF CacheHit(search_cache, SEARCH_TTL, key, now)
           THEN /\ StepReturns(p, search_cache[key].value, now)
                /\ UNCHANGED <<quotaVars, last_request_time, provVars>>
           ELSE IF ~UnderLimit(calls)
           THEN /\ calls_today' = calls
                /\ last_reset_date' = MaybeResetDate(calls_today, last_reset_date, today)
                /\ StepReturns(p, <<>>, now)
                /\ UNCHANGED <<usage, last_request_time, provVars>>
           ELSE IF time_since_last < MIN_REQUEST_INTERVAL
           THEN /\ calls_today' = calls
                /\ last_reset_date' = MaybeResetDate(calls_today, last_reset_date, today)
                /\ pass' = [pass EXCEPT ![p].pc = "sleep",
                                        ![p].wake = now + (MIN_REQUEST_INTERVAL
                                                              - time_since_last)]
                /\ UNCHANGED <<usage, last_request_time, ret, provVars>>
           ELSE /\ Send(p, now, "await")
                /\ ret' = ret
        /\ UNCHANGED <<now, steps, cacheVars, rateVars, api_key_set, searches, scenario,
                       recVars, userVars>>

\* the pacing delay is over: the request is sent
Wake(p) ==
    /\ pass[p].pc = "sleep"
    /\ now' = Max(now, pass[p].wake)
    /\ Send(p, now', "await")
    /\ UNCHANGED <<steps, ret, cacheVars, rateVars, search_cache, api_key_set,
                   searches, scenario, recVars, userVars>>

\* history of the provider's answers
Answered(path, p, key, kind, attempt, done, returned) ==
    last_outcome' = [path |-> path, slot |-> p, key |-> key, kind |-> kind,
                     attempt |-> attempt, done |-> done, returned |-> returned,
                     at |-> now]

\* the failures the except clauses of _search_serpapi handle: HTTPStatusError
\* from raise_for_status, and Exception for everything else raised in the try
\* block (transport errors, timeouts, a body that is not JSON, parse errors)
CaughtOnlyHttpError(kind) == kind = "http_error"
Caught(kind) == kind \in {"http_error", "exception"}

\* _search_serpapi from a response that is not a 429 to its return; a
\* failure no except clause handles propagates to the caller of
\* search_products
HandleResponse(p, resp, attempt) ==
    LET ps == pass[p]
        key == CacheKey(ps.call, ps.stage)
        products == ParseResults(resp.items, resp.tape, ps.call.analysis,
                                 StepIsExact(ps.call, ps.stage))
    IN  CASE resp.kind = "ok" ->
                /\ search_cache' = CacheSet(search_cache, key, products, now)
                /\ StepReturns(p, products, now)
                /\ Answered("search", p, key, resp.kind, attempt, TRUE, products)
          [] resp.kind = "error_payload" ->
                /\ search_cache' = search_cache
                /\ StepReturns(p, <<>>, now)
                /\ Answered("search", p, key, resp.kind, attempt, TRUE, <<>>)
          [] Caught(resp.kind) ->
                /\ search_cache' = CacheSet(search_cache, key, <<>>, now)
                /\ StepReturns(p, <<>>, now)
                /\ Answered("search", p, key, resp.kind, attempt, TRUE, <<>>)
          [] OTHER ->
                /\ search_cache' = search_cache
                /\ pass' = [pass EXCEPT ![p] = IdlePass]
                /\ ret' = [NoCall EXCEPT !.op = "raised", !.at = now, !.call = ps.call,
                               !.sent = ps.sent]
                /\ Answered("search", p, key, resp.kind, attempt, TRUE, <<>>)

\* the response to the first request arrives
Respond(p) ==
    /\ pass[p].pc = "await"
    /\ \E resp \in Responses(p) :
        IF resp.kind = "throttled"
        THEN /\ pass' = [pass EXCEPT ![p].pc = "backoff", ![p].wake = now + RETRY_DELAY]
             /\ Answered("search", p, CacheKey(pass[p].call, pass[p].stage),
                         resp.kind, 1, FALSE, <<>>)
             /\ UNCHANGED <<search_cache, ret>>
        ELSE HandleResponse(p, resp, 1)
    /\ UNCHANGED <<now, steps, cacheVars, quotaVars, rateVars, last_request_time,
                   api_key_set, searches, scenario, recVars, userVars, last_sent, min_gap, requests_sent>>

\* the 2 s delay after a 429 is over: the same request is sent again
Retry(p) ==
    /\ pass[p].pc = "backoff"
    /\ now' = Max(now, pass[p].wake)
    /\ pass' = [pass EXCEPT ![p].pc = "await_retry", ![p].sent = @ + 1]
    /\ Sent(now')
    /\ UNCHANGED <<steps, ret, cacheVars, quotaVars, rateVars, search_cache,
                   last_request_time, api_key_set, searches, scenario, recVars, userVars>>

\* the response to the retry arrives
RespondRetry(p) ==
    /\ pass[p].pc = "await_retry"
    /\ \E resp \in Responses(p) :
        IF resp.kind = "throttled"
        THEN /\ search_cache' = search_cache
             /\ StepReturns(p, <<>>, now)
             /\ Answered("search", p, CacheKey(pass[p].call, pass[p].stage),
                         resp.kind, 2, TRUE, <<>>)
        ELSE HandleResponse(p, resp, 2)
    /\ UNCHANGED <<now, steps, cacheVars, quotaVars, rateVars, last_request_time,
                   api_key_set, searches, scenario, recVars, userVars, last_sent, min_gap, requests_sent>>


(***************************************************************************)
(* RecommendationService._search_products: the second path to the          *)
(* provider.  It has its own cache and its own _last_request_time and      *)
(* shares api_tracker with ProductSearchService.                           *)
(***************************************************************************)
REC_SEARCH_TTL == 7200
REC_SIM_LOW == 80
REC_SIM_HIGH == 95

\* the text hashed into cache_key (the md5 digest is taken to be injective)
RecCacheKey(query, limit) == <<query, limit>>

RecQueries == {<<"t", "r", "e", "n", "d", "i", "n", "g", " ", "f", "a", "s", "h", "i", "o", "n">>,
               <<"d", "e", "a", "l", "s">>}
RecLimits == {4, 12}

\* the loop over shopping_results: items without a link are skipped
ParseRecResults(items, tape) ==
    LET Linked(i) == items[i].linked
        kept == SelectSeq(Indexes(items), Linked)
    IN  [k \in 1..Len(kept) |->
            LET i == kept[k] - 1
                item == items[kept[k]]
            IN  [id |-> IF item.product_id # 0
                        THEN [kind |-> "product_id", n |-> item.product_id, r |-> 0]
                        ELSE [kind |-> "rec", n |-> i,
                              r |-> RandInt(tape, i, ID_RAND_LOW, ID_RAND_HIGH)],
                 price |-> item.price,
                 similarity_percentage |-> RandInt(tape, i, REC_SIM_LOW, REC_SIM_HIGH)]]

RecResponses ==
    {[kind |-> "ok", items |-> l, tape |-> "flat"] :
        l \in {<<>>, <<ItemA>>, <<ItemC, ItemUnlinked, ItemNoId>>}}
    \cup {f \in Failures : f.kind \in {"throttled", "http_error", "exception"}}

\* _search_products returns `products`
RecReturns(key, products, sent) ==
    /\ rec' = IdleRec
    /\ ret' = [NoCall EXCEPT !.op = "rec_search", !.at = now, !.key = key,
                   !.products = products, !.sent = sent]

\* _search_products sends its request: the call is recorded in the tracker
RecSend(t) ==
    LET today == Today(t)
        calls == MaybeResetCalls(calls_today, last_reset_date, today)
    IN  /\ rec_last_request_time' = t
        /\ calls_today' = calls + 1
        /\ last_reset_date' = MaybeResetDate(calls_today, last_reset_date, today)
        /\ usage' = [day |-> today, count |-> UsageOn(today) + 1]
        /\ Sent(t)

\* _search_products up to its first await: credential, cache, quota gate, pacing
RecSearchProducts ==
    /\ scenario = "rec"
    /\ rec.pc = "idle"
    /\ steps < MaxSearchSteps
    /\ steps' = steps + 1
    /\ \E query \in RecQueries, limit \in RecLimits :
        LET key == RecCacheKey(query, limit)
            today == Today(now)
            calls == MaybeResetCalls(calls_today, last_reset_date, today)
            time_since_last == now - rec_last_request_time
        IN  IF CredentialMissing
            THEN /\ RecReturns(key, <<>>, 0)
                 /\ UNCHANGED <<rec_cache, quotaVars, rec_last_request_time, provVars>>
            ELSE /\ rec_cache' = CacheGetStore(rec_cache, REC_SEARCH_TTL, key, now)
                 /\ IF CacheHit(rec_cache, REC_SEARCH_TTL, key, now)
                    THEN /\ RecReturns(key, rec_cache[key].value, 0)
                         /\ UNCHANGED <<quotaVars, rec_last_request_time, provVars>>
                    ELSE IF ~UnderLimit(calls)
                    THEN /\ calls_today' = calls
                         /\ last_reset_date' =
                                MaybeResetDate(calls_today, last_reset_date, today)
                         /\ RecReturns(key, <<>>, 0)
                         /\ UNCHANGED <<usage, rec_last_request_time, provVars>>
                    ELSE IF time_since_last < MIN_REQUEST_INTERVAL
                    THEN /\ calls_today' = calls
                         /\ last_reset_date' =
                                MaybeResetDate(calls_today, last_reset_date, today)
                         /\ rec' = [IdleRec EXCEPT !.pc = "sleep", !.query = query,
                                        !.limit = limit,
                                        !.wake = now + (MIN_REQUEST_INTERVAL
                                                           - time_since_last)]
                         /\ UNCHANGED <<usage, rec_last_request_time, ret, provVars>>
                    ELSE /\ RecSend(now)
                         /\ rec' = [IdleRec EXCEPT !.pc = "await", !.query = query,
                                        !.limit = limit, !.sent = 1]
                         /\ ret' = ret
    /\ UNCHANGED <<now, cacheVars, rateVars, searchVars, userVars>>

\* the pacing delay is over: the request is sent
RecWake ==
    /\ rec.pc = "sleep"
    /\ now' = Max(now, rec.wake)
    /\ RecSend(now')
    /\ rec' = [rec EXCEPT !.pc = "await", !.sent = @ + 1]
    /\ UNCHANGED <<steps, ret, cacheVars, rateVars, searchVars, rec_cache, userVars>>

\* the response arrives: a 429 and every failure store [] and return []
RecRespond ==
    /\ rec.pc = "await"
    /\ \E resp \in RecResponses :
        LET key == RecCacheKey(rec.query, rec.limit)
            products == IF resp.kind = "ok"
                        THEN ParseRecResults(resp.items, resp.tape) ELSE <<>>
        IN  /\ rec_cache' = CacheSet(rec_cache, key, products, now)
            /\ RecReturns(key, products, rec.sent)
            /\ Answered("rec", 0, key, resp.kind, 1, TRUE, products)
    /\ UNCHANGED <<now, steps, cacheVars, quotaVars, rateVars, searchVars,
                   rec_last_request_time, last_sent, min_gap,
                   requests_sent, userVars>>

\* random.shuffle: the orders a list can be left in
Shuffles(list) ==
    {[i \in 1..Len(list) |-> list[f[i]]] :
        f \in {g \in [1..Len(list) -> 1..Len(list)] :
                  \A i, j \in 1..Len(list) : g[i] = g[j] => i = j}}

PERSONAL_SIM_LOW == 85
PERSONAL_SIM_HIGH == 98

\* the list _search_products returned is the list object held by the cache
\* (it was stored by this call or taken from the cache by it)
ReturnedFromCache ==
    /\ scenario = "rec"
    /\ rec.pc = "idle"
    /\ ret.op = "rec_search"
    /\ ~ret.handled
    /\ ret.products # <<>>
    /\ ret.key \in DOMAIN rec_cache

\* get_recommendation_sections: random.shuffle(trending_products) on the
\* list returned by _search_products(trending_query, 12)
ShuffleReturned ==
    /\ ReturnedFromCache
    /\ ret.key[2] = 12
    /\ \E shuffled \in Shuffles(rec_cache[ret.key].value) :
          rec_cache' = [rec_cache EXCEPT ![ret.key].value = shuffled]
    /\ ret' = [ret EXCEPT !.handled = TRUE]
    /\ UNCHANGED <<now, steps, cacheVars, quotaVars, rateVars, searchVars,
                   rec_last_request_time, rec, provVars, userVars>>

\* _generate_personalized_style_recommendations: every product of the list
\* returned by _search_products(query, 4) gets a new similarity_percentage
RescoreReturned ==
    /\ ReturnedFromCache
    /\ ret.key[2] = 4
    /\ \E score \in {PERSONAL_SIM_LOW, PERSONAL_SIM_HIGH} :
          rec_cache' = [rec_cache EXCEPT ![ret.key].value =
                           [i \in 1..Len(@) |->
                               [@[i] EXCEPT !.similarity_percentage = score]]]
    /\ ret' = [ret EXCEPT !.handled = TRUE]
    /\ UNCHANGED <<now, steps, cacheVars, quotaVars, rateVars, searchVars,
                   rec_last_request_time, rec, provVars, userVars>>

NextSearch ==
    \/ SearchTick
    \/ RecSearchProducts
    \/ RecWake
    \/ RecRespond
    \/ ShuffleReturned
    \/ RescoreReturned
    \/ \E p \in DOMAIN pass : Begin(p)
    \/ \E p \in DOMAIN pass : Enter(p)
    \/ \E p \in DOMAIN pass : Wake(p)
    \/ \E p \in DOMAIN pass : Respond(p)
    \/ \E p \in DOMAIN pass : Retry(p)
    \/ \E p \in DOMAIN pass : RespondRetry(p)

SpecSearch == InitSearch /\ [][NextSearch]_vars

\* a completed invocation of search_products that got past the API-key check
Searched == ret.op = "search" /\ api_key_set

\* C5: one invocation of search_products sends at most 2 requests to the
\* provider, every request counted, and at most 1 in alternatives mode when
\* the description has no brand.
C5_AtMostTwoRequests ==
    Searched =>
        /\ ret.sent <= 2
        /\ (ret.call.search_mode # "exact" /\ ret.call.analysis.brand = <<>>)
              => ret.sent <= 1

\* C6: the sequence returned by one invocation contains each product id at
\* most once, also when one provider response lists an id more than once.
C6_NoDuplicateIds ==
    Searched =>
        \A i, j \in 1..Len(ret.products) :
            i < j => ret.products[i].id # ret.products[j].id

\* the result cap of a tier name, as the claim states it
CapOfTier(tier) ==
    CASE tier = "basic" -> 25
      [] tier = "pro" -> 40
      [] tier = "unlimited" -> 60
      [] OTHER -> 15

\* the key of the mode's order: similarity descending in exact mode, price
\* ascending otherwise
ModeKey(product, search_mode) ==
    IF search_mode = "exact" THEN 0 - product.similarity_percentage ELSE product.price

Count(seq, x) == Cardinality({i \in 1..Len(seq) : seq[i] = x})

\* C7: the invocation returns at most the tier's result cap (free 15, basic
\* 25, pro 40, unlimited 60, unknown tier names 15) however many items the
\* provider returns, and the items kept are the first ones of the mode's
\* order: the result is in that order, is drawn from the merged list, and
\* nothing left out comes before something kept.
C7_TierCapKeepsFirst ==
    Searched =>
        LET out == ret.products
            all == ret.merged
            mode == ret.call.search_mode
            cap == CapOfTier(ret.call.tier)
        IN  /\ Len(out) = Min({Len(all), cap})
            /\ \A i \in 1..(Len(out) - 1) :
                  ModeKey(out[i], mode) <= ModeKey(out[i + 1], mode)
            /\ \A i \in 1..Len(out) : Count(out, out[i]) <= Count(all, out[i])
            /\ \A k \in 1..Len(all) :
                  Count(out, all[k]) < Count(all, all[k])
                     => \A i \in 1..Len(out) :
                           ModeKey(out[i], mode) <= ModeKey(all[k], mode)

\* an unknown tier name got more items than the free cap and kept 15
C7_Witness ==
    /\ Searched
    /\ ret.call.tier \notin KnownTiers
    /\ Len(ret.merged) > 15
    /\ Len(ret.products) = 15

WithSimilarity(products, v) ==
    LET Has(p) == p.similarity_percentage = v IN SelectSeq(products, Has)

IsPrefix(a, b) == Len(a) <= Len(b) /\ a = SubSeq(b, 1, Len(a))

\* C8: in exact mode the returned sequence is in non-increasing order of
\* similarity, and the products of one similarity appear in the order in
\* which they were first seen (primary results, then fallback results).
C8_ExactSortedStable ==
    (Searched /\ ret.call.search_mode = "exact") =>
        LET out == ret.products
        IN  /\ \A i \in 1..(Len(out) - 1) :
                  out[i].similarity_percentage >= out[i + 1].similarity_percentage
            /\ \A v \in {out[i].similarity_percentage : i \in 1..Len(out)} :
                  IsPrefix(WithSimilarity(out, v), WithSimilarity(ret.merged, v))

\* an exact search whose merged list was not in order and had a tie between
\* two different products
C8_Witness ==
    /\ Searched
    /\ ret.call.search_mode = "exact"
    /\ \E k \in 1..(Len(ret.merged) - 1) :
          ret.merged[k].similarity_percentage < ret.merged[k + 1].similarity_percentage
    /\ \E i, j \in 1..Len(ret.products) :
          /\ i < j
          /\ ret.products[i].similarity_percentage = ret.products[j].similarity_percentage
          /\ ret.products[i].id # ret.products[j].id

(***************************************************************************)
(* RateLimitMiddleware._get_limit_for_path on its own: a path is drawn,    *)
(* then its limit is resolved.                                             *)
(***************************************************************************)
MaxSegments == 3

Slash == "/"
PathSegments ==
    {<<"a", "p", "i">>,
     <<"a", "u", "t", "h">>,
     <<"l", "o", "g", "i", "n">>,
     <<"r", "e", "g", "i", "s", "t", "e", "r">>,
     <<"m", "e">>,
     <<"s", "e", "a", "r", "c", "h">>,
     <<"c", "h", "a", "t">>,
     <<"s", "u", "b", "s", "c", "r", "i", "p", "t", "i", "o", "n">>,
     <<"w", "e", "b", "h", "o", "o", "k">>,
     <<"f", "a", "v", "o", "r", "i", "t", "e", "s">>,
     <<"l", "o", "g", "i", "n", "x">>,
     <<"d", "o", "c", "s">>}

\* the sequences over S of length 1..n
SeqsUpTo(S, n) == UNION {[1..k -> S] : k \in 1..n}

\* "/" + "/".join(segments), with or without a trailing "/"
LimitPaths ==
    {<<Slash>> \o Join(segs, <<Slash>>) \o trail :
        segs \in SeqsUpTo(PathSegments, MaxSegments), trail \in {<<>>, <<Slash>>}}

InitLimit ==
    /\ now = 0
    /\ steps = 0
    /\ sections_cache = <<>>
    /\ lastSet = [k \in SectionKeys |-> NoEntry]
    /\ swept = FALSE
    /\ calls_today = 0
    /\ last_reset_date = 0
    /\ usage = [day |-> 0, count |-> 0]
    /\ requests = <<>>
    /\ last_cleanup = 0
    /\ admitted = <<>>
    /\ rejected = <<>>
    /\ search_cache = <<>>
    /\ last_request_time = 0
    /\ api_key_set = TRUE
    /\ pass = <<>>
    /\ searches = 0
    /\ scenario = "none"
    /\ rec_cache = <<>>
    /\ rec_last_request_time = 0
    /\ rec = IdleRec
    /\ last_sent = NoSend
    /\ min_gap = NoGap
    /\ last_outcome = NoOutcome
    /\ requests_sent = [day |-> 0, count |-> 0]
    /\ user = <<>>
    /\ search_call = <<>>
    /\ generation = <<>>
    /\ invalidated = <<>>
    /\ \E path \in LimitPaths : ret = [NoCall EXCEPT !.op = "path", !.path = path]

\* limit = self._get_limit_for_path(path)
ResolveLimit ==
    /\ ret.op = "path"
    /\ ret' = [ret EXCEPT !.op = "limit", !.limit = GetLimitForPath(ret.path)]
    /\ UNCHANGED <<now, steps, cacheVars, quotaVars, rateVars, searchVars, recVars, userVars, provVars>>

NextLimit == ResolveLimit

SpecLimit == InitLimit /\ [][NextLimit]_vars

\* the limit of the longest configured prefix that is a prefix of the path
LongestPrefixLimit(path) ==
    LET matching == MatchingIndexes(path)
    IN  IF matching = {} THEN 120
        ELSE Limits[CHOOSE i \in matching :
                        \A j \in matching :
                            Len(Limits[j].prefix) <= Len(Limits[i].prefix)].limit

C11_WitnessDefault ==
    /\ ret.op = "limit"
    /\ MatchingIndexes(ret.path) = {}
    /\ ret.limit = DEFAULT_LIMIT

\* the index in Limits of the route prefix a path resolves to, 0 for the default
ResolvedPrefix(path) ==
    IF MatchingIndexes(path) = {} THEN 0 ELSE Min(MatchingIndexes(path))

\* the admitted requests of a client later than time t whose path resolves
\* to the prefix with index i, as <<key, position>> pairs
AdmittedUnderPrefix(client, i, t) ==
    {e \in UNION {{k} \X (1..Len(admitted[k])) : k \in DOMAIN admitted} :
        /\ e[1][1] = client
        /\ ResolvedPrefix(e[1][2]) = i
        /\ admitted[e[1]][e[2]] > t}

\* C12: for every client and configured route prefix, the client's admitted
\* requests whose path resolves to that prefix inside the trailing 60 seconds
\* never exceed the prefix's limit, whatever mix of paths under the prefix.
C12_PrefixWindowWithinLimit ==
    \A client \in {ClientA, ClientB}, i \in 1..Len(Limits) :
        Cardinality(AdmittedUnderPrefix(client, i, now - Window)) <= Limits[i].limit

\* C13: a request is rejected only if the same client already has at least
\* `limit` admitted requests in the trailing 60 seconds that resolve to the
\* same route prefix as this request; requests resolving to another prefix
\* and requests of other clients never count toward the rejection.
C13_RejectedOnlyByOwnPrefix ==
    (ret.op = "dispatch" /\ ret.status = 429) =>
        Cardinality(AdmittedUnderPrefix(ret.client, ResolvedPrefix(ret.path),
                                        ret.at - Window)) >= ret.limit

\* the calls recorded for the day of time t
CallsOnDayOf(t) == IF Today(t) > last_reset_date THEN 0 ELSE calls_today

\* cache `after` is cache `before` with no entry for key and every other
\* entry as it was
SameButKey(before, after, key) ==
    /\ key \notin DOMAIN after
    /\ DOMAIN before \ {key} = DOMAIN after
    /\ \A k \in DOMAIN after : after[k] = before[k]

\* the invocation in slot p takes a step from the quota gate of
\* _search_serpapi with the gate closed
ClosedGateStep(p) ==
    /\ pass[p].pc = "enter"
    /\ ~Fresh(search_cache, SEARCH_TTL, CacheKey(pass[p].call, pass[p].stage), now)
    /\ CallsOnDayOf(now) >= 50
    /\ pass'[p] # pass[p]

\* RecommendationService._search_products is called with the gate closed
\* for a query that is not cached
RecClosedGateStep ==
    /\ scenario = "rec" /\ api_key_set
    /\ rec.pc = "idle"
    /\ CallsOnDayOf(now) >= 50
    /\ ret'.op = "rec_search" /\ steps' = steps + 1 /\ now' = now
    /\ ~Fresh(rec_cache, REC_SEARCH_TTL, ret'.key, now)

\* C14: when can_make_call() is false at the quota gate of a search step,
\* the step returns an empty result without raising, sends no request,
\* does not call record_call, and stores no entry for the query; the rest
\* of the cache is as it was.  Both paths to the provider.
C14_ClosedGateShortCircuits ==
    [][/\ \A p \in DOMAIN pass :
            ClosedGateStep(p) =>
                /\ usage' = usage
                /\ calls_today' = CallsOnDayOf(now)
                /\ last_sent' = last_sent /\ min_gap' = min_gap
                /\ SameButKey(search_cache, search_cache',
                              CacheKey(pass[p].call, pass[p].stage))
                /\ pass'[p].pc \in {"enter", "idle"}
                /\ pass'[p].pc = "enter"
                      => /\ pass'[p].all_products = pass[p].all_products
                         /\ pass'[p].sent = pass[p].sent
                /\ pass'[p].pc = "idle"
                      => /\ ret'.op = "search"
                         /\ ret'.merged = pass[p].all_products
                         /\ ret'.sent = pass[p].sent
       /\ RecClosedGateStep =>
                /\ usage' = usage
                /\ calls_today' = CallsOnDayOf(now)
                /\ last_sent' = last_sent /\ min_gap' = min_gap
                /\ SameButKey(rec_cache, rec_cache', ret'.key)
                /\ rec'.pc = "idle"
                /\ ret'.products = <<>>
                /\ ret'.sent = 0
      ]_vars

\* an exact search whose primary query was the 50th call of the day and
\* came back with fewer than 5 products: the fallback query met the closed
\* gate, sent nothing and left no entry
C14_Witness ==
    /\ Searched
    /\ ret.call.search_mode = "exact"
    /\ calls_today = DAILY_LIMIT
    /\ usage.count = DAILY_LIMIT
    /\ ret.sent = 1
    /\ Len(ret.merged) < FALLBACK_FLOOR
    /\ CacheKey(ret.call, 2) \notin DOMAIN search_cache

\* the same on the recommendation path: a call met the closed gate
C14_WitnessRec ==
    /\ ret.op = "rec_search"
    /\ api_key_set
    /\ calls_today = DAILY_LIMIT
    /\ ret.sent = 0
    /\ ret.key \notin DOMAIN rec_cache

\* the cache of the path a provider answer belongs to
CacheOfPath(path) == IF path = "rec" THEN rec_cache ELSE search_cache

\* C15: after a provider call for a query fails in any way (transport error,
\* non-success status, a 429 that persists after the retry, an error
\* payload, a parse failure) the search step returns an empty list and an
\* empty result is stored under the query's key, so the key is a cache hit
\* for the following 7200 seconds.
C15_FailureCachedEmpty ==
    (last_outcome.done /\ last_outcome.kind # "ok"
        /\ now - last_outcome.at < 7200)
    => /\ last_outcome.returned = <<>>
       /\ last_outcome.key \in DOMAIN CacheOfPath(last_outcome.path)
       /\ CacheOfPath(last_outcome.path)[last_outcome.key].value = <<>>
       /\ CacheOfPath(last_outcome.path)[last_outcome.key].timestamp = last_outcome.at

\* C16: whenever the provider answers a search request with a 429, exactly
\* one delayed retry of that request is issued, and the step falls back to
\* an empty result only if the retry is throttled or fails as well; on both
\* paths to the provider.
C16_ThrottledRetriedOnce ==
    /\ (last_outcome.kind = "throttled" /\ last_outcome.attempt = 1)
          => /\ ~last_outcome.done
             /\ last_outcome.path = "search"
                   => pass[last_outcome.slot].pc \in {"backoff", "await_retry"}
             /\ last_outcome.path = "rec" => rec.pc \in {"backoff", "await_retry"}
    /\ last_outcome.attempt = 2
          => /\ last_outcome.done
             /\ last_outcome.kind = "ok"
                   => /\ last_outcome.key \in DOMAIN CacheOfPath(last_outcome.path)
                      /\ CacheOfPath(last_outcome.path)[last_outcome.key].value
                            = last_outcome.returned

\* C17: for every description, tier, mode and provider outcome the
\* orchestrator returns a (possibly empty) product list and never raises to
\* its caller; with no provider credential configured it returns empty
\* without sending a request, recording a quota call or writing a cache.
C17_FailuresAbsorbed ==
    /\ ret.op # "raised"
    /\ \A p \in DOMAIN pass :
          pass[p].pc \in {"idle", "enter", "sleep", "await", "backoff", "await_retry"}
    /\ (last_outcome.path = "search" /\ last_outcome.done /\ last_outcome.kind # "ok")
          => last_outcome.returned = <<>>
    /\ ~api_key_set =>
          /\ last_sent = NoSend
          /\ last_outcome = NoOutcome
          /\ search_cache = <<>> /\ rec_cache = <<>>
          /\ usage = [day |-> 0, count |-> calls_today]
          /\ calls_today \in {0, DAILY_LIMIT - 1}
          /\ ret.op \in {"search", "rec_search"} => (ret.products = <<>> /\ ret.sent = 0)

\* an invocation whose last provider call raised inside _search_serpapi
\* (a timeout, a body that is not JSON) returned to its caller
C17_Witness ==
    /\ ret.op = "search"
    /\ api_key_set
    /\ last_outcome.path = "search"
    /\ last_outcome.kind = "exception"
    /\ last_outcome.done
    /\ last_outcome.at = ret.at

\* an invocation without a provider credential returned
C17_WitnessNoCredential ==
    /\ ret.op = "search"
    /\ ~api_key_set
    /\ ret.products = <<>>

\* C18: under every interleaving of concurrent invocations, any two requests
\* sent to the provider (by one invocation, by different invocations, or as
\* a retry after a 429) are sent at least 1 second apart.
C18_RequestsPaced == min_gap = NoGap \/ min_gap >= 1

\* C19: under every interleaving of concurrent invocations, each of which
\* evaluates can_make_call(), may suspend for the pacing delay and then
\* calls record_call(), the calls recorded for a day never exceed the daily
\* limit by more than one.
C19_OvershootAtMostOne == calls_today <= 50 + 1 /\ usage.count <= 50 + 1

\* C20: record_call() increases the calls recorded for the current day by
\* exactly 1 on every call, also at or above the daily limit, and
\* get_remaining() returns max(0, 50 - calls recorded for the current day),
\* hence never a negative number.
C20_RecordAddsOneRemainingClamped ==
    /\ ret.op = "record_call" =>
          /\ calls_today = (IF ret.existed THEN 0 ELSE ret.count) + 1
          /\ calls_today = UsageOn(Today(ret.at))
    /\ ret.op = "get_remaining" =>
          /\ ret.count >= 0
          /\ ret.count = (IF UsageOn(Today(ret.at)) >= 50 THEN 0
                          ELSE 50 - UsageOn(Today(ret.at)))

\* a call recorded when the day's count was already above the limit
C20_Witness ==
    /\ ret.op = "record_call"
    /\ ~ret.existed
    /\ ret.count > DAILY_LIMIT
    /\ calls_today = ret.count + 1

\* get_remaining() with more than 50 calls recorded for the day
C20_WitnessRemaining ==
    /\ ret.op = "get_remaining"
    /\ UsageOn(Today(ret.at)) > DAILY_LIMIT
    /\ ret.count = 0

WithPrice(products, v) ==
    LET Has(p) == p.price = v IN SelectSeq(products, Has)

\* C21: in alternatives mode the returned sequence is in non-decreasing
\* order of price, every item whose price is unknown or zero in the provider
\* record comes after all items with a known positive price, and items of
\* equal price keep first-seen order.
C21_AlternativesByPriceUnknownLast ==
    (Searched /\ ret.call.search_mode # "exact") =>
        LET out == ret.products
        IN  /\ \A i, j \in 1..Len(out) :
                  (i < j /\ out[i].listed_price > 0 /\ out[j].listed_price > 0)
                     => out[i].listed_price <= out[j].listed_price
            /\ \A i, j \in 1..Len(out) :
                  (out[i].listed_price <= 0 /\ out[j].listed_price > 0) => j < i
            /\ \A v \in {out[i].price : i \in 1..Len(out)} :
                  IsPrefix(WithPrice(out, v), WithPrice(ret.merged, v))

\* the items of `more` whose id is neither in `seen` nor earlier in `more`
FirstSeenOnly(seen, more) ==
    LET idx == {i \in 1..Len(more) :
                   /\ \A k \in 1..Len(seen) : seen[k].id # more[i].id
                   /\ \A k \in 1..(i - 1) : more[k].id # more[i].id}
        New(i) == i \in idx
        kept == SelectSeq([i \in 1..Len(more) |-> i], New)
    IN  [k \in 1..Len(kept) |-> more[kept[k]]]

\* C22: in exact mode the fallback (style) query is executed if and only if
\* the primary query collected fewer than 5 products; it is executed at most
\* once, after the primary query has completed, and its products are
\* appended only when their id was not already seen.
C22_FallbackIffBelowFloor ==
    /\ \A p \in DOMAIN pass :
          (pass[p].pc # "idle" /\ pass[p].call.search_mode = "exact")
             => /\ pass[p].stage \in {1, 2}
                /\ pass[p].stage = 2 => Len(pass[p].all_products) < 5
                /\ pass[p].stage = 1 => pass[p].all_products = <<>>
    /\ (Searched /\ ret.call.search_mode = "exact") =>
          /\ ret.stage \in {1, 2}
          /\ ret.stage = 2 <=> Len(ret.first) < 5
          /\ ret.stage = 1 => ret.second = <<>>
          /\ ret.merged = ret.first \o FirstSeenOnly(ret.first, ret.second)

\* an exact search whose primary query returned 2 products, so that the
\* fallback ran; it returned one product already seen and new ones
C22_Witness ==
    /\ Searched
    /\ ret.call.search_mode = "exact"
    /\ ret.stage = 2
    /\ Len(ret.first) = 2
    /\ \E i \in 1..Len(ret.second), k \in 1..Len(ret.first) :
          ret.second[i].id = ret.first[k].id
    /\ Len(ret.merged) > Len(ret.first)
    /\ Len(ret.merged) < Len(ret.first) + Len(ret.second)

\* an exact search whose primary query returned exactly 5 products: no fallback
C22_WitnessAtFloor ==
    /\ Searched
    /\ ret.call.search_mode = "exact"
    /\ Len(ret.first) = 5
    /\ ret.stage = 1
    /\ ret.sent = 1

\* `word` occurs in `text` as a contiguous run of characters
ContainsWord(text, word) ==
    \E i \in 1..(Len(text) - Len(word) + 1) :
        SubSeq(text, i, i + Len(word) - 1) = word

\* C23: in alternatives mode the alternatives query contains the term
\* "affordable" if and only if the tier permits budget queries (basic, pro,
\* unlimited), and not for the free tier or an unknown tier.
C23_AffordableIffBudgetTier ==
    (Searched /\ ret.call.search_mode # "exact") =>
        (ContainsWord(StepQuery(ret.call, 2), WordAffordable)
            <=> ret.call.tier \in {"basic", "pro", "unlimited"})

\* the times of the client's requests in a history, over all paths
TimesOf(history, client) ==
    UNION {{history[k][i] : i \in 1..Len(history[k])} :
              k \in {h \in DOMAIN history : h[1] = client}}

\* the recorded requests of a key inside the window of a request at time t
RecordedInWindow(reqs, key, t) == InWindow(EntriesOf(reqs, key), t - Window)

\* C24: a rejected request is not recorded in the client's window; a request
\* is admitted as soon as fewer than `limit` recorded requests remain in the
\* trailing 60 seconds, which is at the latest 60 seconds after the client's
\* last admitted request, however many requests were rejected in between.
C24_RejectedNotRecorded ==
    [][(ret'.op = "dispatch" /\ ~Exempt(ret'.path)
           /\ (admitted' # admitted \/ rejected' # rejected)) =>
          LET key == RateKey(ret'.client, ret'.path)
              before == RecordedInWindow(requests, key, ret'.at)
              after == RecordedInWindow(requests', key, ret'.at)
          IN  /\ ret'.status = 429 <=>
                    SumCounts(before) >= GetLimitForPath(ret'.path)
              /\ ret'.status = 429 =>
                    /\ after = before
                    /\ \A k \in DOMAIN requests' \ {key} : requests'[k] = requests[k]
                    /\ \E t \in TimesOf(admitted, ret'.client) : t > ret'.at - Window
              /\ ret'.status # 429 =>
                    /\ ret'.handled
                    /\ after = Append(before, [ts |-> ret'.at, count |-> 1])]_vars

\* a client turned away at the limit and still sending is admitted 60 seconds
\* after its last admitted request
C24_Witness ==
    /\ ret.op = "dispatch"
    /\ ret.status = 200
    /\ ret.path = PathLogin
    /\ TimesOf(rejected, ret.client) # {}
    /\ \A t \in TimesOf(rejected, ret.client) : t < ret.at
    /\ \A t \in TimesOf(admitted, ret.client) \ {ret.at} : t = ret.at - Window
    /\ Len(admitted[<<ret.client, ret.path>>]) = GetLimitForPath(ret.path) + 1

\* an entry for key k stored less than ttl seconds before t
Unexpired(c, ttl, k, t) == k \in DOMAIN c /\ t - c[k].timestamp < ttl

\* the entry of key k in cache `after` is not the one in cache `before`
StoredAt(before, after, k) ==
    k \in DOMAIN after /\ (k \in DOMAIN before => after[k] # before[k])

\* C25: a search step that finds an unexpired cache entry for its key (a
\* cached empty list included) returns the cached products and changes
\* nothing else: no request is sent, record_call is not called and the
\* pacing timestamp stays.  A step that misses passes the quota gate before
\* it sends a request, and a cache store happens only after a request of the
\* step has been answered.  Both paths to the provider.
C25_HitChangesNothing ==
    [][/\ \A p \in DOMAIN pass :
            LET key == CacheKey(pass[p].call, pass[p].stage)
            IN  /\ (pass[p].pc = "enter" /\ pass'[p] # pass[p]) =>
                    IF Unexpired(search_cache, SEARCH_TTL, key, now)
                    THEN /\ UNCHANGED <<search_cache, quotaVars, last_request_time,
                                        provVars, now, recVars, userVars>>
                         /\ pass'[p].pc \in {"enter", "idle"}
                         /\ pass'[p].pc = "enter" =>
                               /\ pass'[p].all_products = search_cache[key].value
                               /\ pass'[p].sent = pass[p].sent
                         /\ pass'[p].pc = "idle" =>
                               /\ ret'.op = "search"
                               /\ ret'.sent = pass[p].sent
                               /\ (IF pass[p].stage = 1 THEN ret'.first ELSE ret'.second)
                                     = search_cache[key].value
                    ELSE /\ key \notin DOMAIN search_cache'
                         /\ pass'[p].pc \in {"sleep", "await"}
                               => CallsOnDayOf(now) < 50
                         /\ last_sent' # last_sent => pass'[p].pc = "await"
                /\ (pass'[p] # pass[p] /\ pass[p].pc # "idle"
                        /\ StoredAt(search_cache, search_cache', key))
                      => /\ pass[p].pc \in {"await", "await_retry"}
                         /\ pass[p].sent >= 1
       /\ search_cache' # search_cache =>
             \E p \in DOMAIN pass : pass'[p] # pass[p] /\ pass[p].pc # "idle"
       /\ (scenario = "rec" /\ api_key_set /\ rec.pc = "idle" /\ rec' # rec) =>
             LET key == RecCacheKey(rec'.query, rec'.limit)
             IN  /\ ~Unexpired(rec_cache, REC_SEARCH_TTL, key, now)
                 /\ key \notin DOMAIN rec_cache'
                 /\ CallsOnDayOf(now) < 50
                 /\ last_sent' # last_sent => rec'.pc = "await"
       /\ (scenario = "rec" /\ api_key_set /\ rec.pc = "idle" /\ rec'.pc = "idle"
              /\ steps' = steps + 1 /\ now' = now
              /\ Unexpired(rec_cache, REC_SEARCH_TTL, ret'.key, now)) =>
             /\ UNCHANGED <<rec_cache, quotaVars, rec_last_request_time, provVars,
                            searchVars>>
             /\ ret'.op = "rec_search"
             /\ ret'.products = rec_cache[ret'.key].value
             /\ ret'.sent = 0
       /\ (rec_cache' # rec_cache /\ (rec' # rec \/ steps' = steps + 1)) =>
             \/ rec.pc = "await" /\ rec.sent >= 1
             \/ rec.pc = "idle"
                   /\ \A k \in DOMAIN rec_cache' : rec_cache'[k] = rec_cache[k]
      ]_vars

\* a second invocation found the empty list cached by a failed first one
C25_Witness ==
    /\ Searched
    /\ ret.sent = 0
    /\ ret.merged = <<>>
    /\ last_outcome.kind = "http_error"
    /\ last_outcome.at < ret.at
    /\ Unexpired(search_cache, SEARCH_TTL, CacheKey(ret.call, ret.stage), ret.at)
    /\ search_cache[CacheKey(ret.call, ret.stage)].value = <<>>

\* the same on the recommendation path, with a cached list of products
C25_WitnessRec ==
    /\ ret.op = "rec_search"
    /\ api_key_set
    /\ ret.sent = 0
    /\ ret.products # <<>>
    /\ usage.count = 1
    /\ Unexpired(rec_cache, REC_SEARCH_TTL, ret.key, ret.at)

\* C26: the calls recorded for a day equal the requests sent to the provider
\* on that day by either service: every request, the one repeated after a
\* 429 included, is recorded exactly once and nothing else is recorded.
C26_RecordedEqualsSent ==
    /\ usage = requests_sent
    /\ CallsOnDayOf(now) =
          (IF requests_sent.day = Today(now) THEN requests_sent.count ELSE 0)

\* C27: every response of the monitoring read is consistent in itself: its
\* remaining value is max(0, limit - calls) for the calls value it reports,
\* and its status is "limit_reached" (not "ok") exactly when that calls
\* value has reached the limit; also on the first read after a day boundary.
C27_MonitoringReadConsistent ==
    ret.op = "get_api_usage" =>
        /\ ret.remaining = Max(0, ret.limit - ret.count)
        /\ ~ret.allowed <=> ret.count >= ret.limit

\* C29: a value stored in the search cache is not altered by what callers do
\* with the list they got: a get of a key within the TTL of its last set
\* returns the products of that set, in the same order and with the same
\* similarity scores.
C29_CachedValueUnaltered ==
    (/\ ret.op = "rec_search" /\ api_key_set
     /\ ret.sent = 0
     /\ last_outcome.path = "rec"
     /\ last_outcome.key = ret.key
     /\ ret.at - last_outcome.at < REC_SEARCH_TTL)
    => ret.products = last_outcome.returned

(***************************************************************************)
(* The handlers of one user: the search endpoints (monthly scan limit,     *)
(* history, cache invalidation) and the recommendation sections endpoint.  *)
(***************************************************************************)
MaxUserSteps == 5

\* a month of the model's calendar; datetime.month is 1..12
SECONDS_PER_MONTH == 30 * SECONDS_PER_DAY
MonthIndex(t) == t \div SECONDS_PER_MONTH
MonthOf(t) == (MonthIndex(t) % 12) + 1

\* monthly_scans_reset_at of a user who never scanned (None)
NoReset == -1

\* User.get_monthly_scan_limit: SUBSCRIPTION_TIERS[tier]["monthly_scans"],
\* the free tier's for an unknown tier
MonthlyScanLimit(tier) ==
    CASE tier = "free" -> 20
      [] tier = "basic" -> 100
      [] tier = "pro" -> 500
      [] tier = "unlimited" -> -1
      [] OTHER -> 20

\* User.get_remaining_scans
RemainingScans(u) ==
    IF MonthlyScanLimit(u.tier) = -1 THEN -1
    ELSE Max(0, MonthlyScanLimit(u.tier) - u.monthly_scans_used)

\* User.can_perform_scan
CanPerformScan(u, t) == RemainingScans(u) = -1 \/ RemainingScans(u) > 0

\* User.increment_scan_count
IncrementScanCount(u, t) ==
    IF u.monthly_scans_reset_at = NoReset \/ MonthOf(u.monthly_scans_reset_at) # MonthOf(t)
    THEN [u EXCEPT !.monthly_scans_used = 1, !.monthly_scans_reset_at = t]
    ELSE [u EXCEPT !.monthly_scans_used = @ + 1]

IdleHandler == [pc |-> "idle", key |-> <<>>, version |-> 0, floor |-> 0]

\* the sections generated from a user's history of n searches
SectionsFrom(uid, n) == [user |-> uid, version |-> n]

UserClockSteps == {1, SECONDS_PER_MONTH, 12 * SECONDS_PER_MONTH}

\* a new user, or a user one scan below the monthly limit of the tier
InitUser ==
    /\ now = 0
    /\ steps = 0
    /\ ret = NoCall
    /\ sections_cache = <<>>
    /\ lastSet = [k \in SectionKeys |-> NoEntry]
    /\ swept = FALSE
    /\ calls_today = 0
    /\ last_reset_date = 0
    /\ usage = [day |-> 0, count |-> 0]
    /\ requests = <<>>
    /\ last_cleanup = 0
    /\ admitted = <<>>
    /\ rejected = <<>>
    /\ search_cache = <<>>
    /\ last_request_time = 0
    /\ api_key_set = TRUE
    /\ pass = <<>>
    /\ searches = 0
    /\ scenario = "none"
    /\ rec_cache = <<>>
    /\ rec_last_request_time = 0
    /\ rec = IdleRec
    /\ last_sent = NoSend
    /\ min_gap = NoGap
    /\ last_outcome = NoOutcome
    /\ requests_sent = [day |-> 0, count |-> 0]
    /\ \E tiers \in [UserIds -> {"free", "pro", "unlimited"}],
          fresh \in [UserIds -> BOOLEAN] :
        /\ user = [u \in UserIds |->
                      IF fresh[u]
                      THEN [tier |-> tiers[u], monthly_scans_used |-> 0,
                            monthly_scans_reset_at |-> NoReset, searches |-> 0]
                      ELSE [tier |-> tiers[u],
                            monthly_scans_used |->
                                Max(1, MonthlyScanLimit(tiers[u]) - 1),
                            monthly_scans_reset_at |-> 0,
                            searches |-> Max(1, MonthlyScanLimit(tiers[u]) - 1)]]
        /\ invalidated = [u \in UserIds |->
                             IF fresh[u] THEN 0
                             ELSE Max(1, MonthlyScanLimit(tiers[u]) - 1)]
    /\ search_call = [u \in UserIds |-> IdleHandler]
    /\ generation = [u \in UserIds |-> IdleHandler]

UserTick ==
    /\ steps < MaxUserSteps
    /\ \E d \in UserClockSteps : now' = now + d
    /\ steps' = steps + 1
    /\ UNCHANGED <<ret, cacheVars, quotaVars, rateVars, searchVars, recVars, userVars,
                   provVars>>

\* search_by_image / search_by_text up to the first await after
\* check_search_limit: a 429, or the handler goes on to the analysis
SearchBegin(uid) ==
    /\ steps < MaxUserSteps
    /\ search_call[uid].pc = "idle"
    /\ steps' = steps + 1
    /\ ret' = [NoCall EXCEPT !.op = "check_search_limit", !.user = uid, !.at = now,
                   !.allowed = CanPerformScan(user[uid], now),
                   !.status = IF CanPerformScan(user[uid], now) THEN 200 ELSE 429,
                   !.limit = MonthlyScanLimit(user[uid].tier),
                   !.count = user[uid].monthly_scans_used]
    /\ search_call' = IF CanPerformScan(user[uid], now)
                      THEN [search_call EXCEPT ![uid].pc = "searching"]
                      ELSE search_call
    /\ UNCHANGED <<now, cacheVars, quotaVars, rateVars, searchVars, recVars, user,
                   generation, invalidated, provVars>>

\* the rest of the search handler: the SearchHistory row is committed, the
\* scan is counted and the user's cached sections are invalidated
SearchFinish(uid) ==
    LET prefix == InvalidateUserPrefix(uid)
        counted == IncrementScanCount(user[uid], now)
    IN  /\ steps < MaxUserSteps
        /\ search_call[uid].pc = "searching"
        /\ steps' = steps + 1
        /\ search_call' = [search_call EXCEPT ![uid] = IdleHandler]
        /\ user' = [user EXCEPT ![uid] = [counted EXCEPT !.searches = @ + 1]]
        /\ sections_cache' = CacheInvalidatePrefixStore(sections_cache, prefix)
        /\ invalidated' = [invalidated EXCEPT ![uid] = user'[uid].searches]
        /\ ret' = [NoCall EXCEPT !.op = "search_done", !.user = uid, !.at = now,
                       !.key = prefix,
                       !.count = CacheInvalidatePrefixCount(sections_cache, prefix)]
        /\ UNCHANGED <<now, lastSet, swept, quotaVars, rateVars, searchVars, recVars,
                       generation, provVars>>

\* get_recommendation_sections up to its first suspension: a cache hit
\* returns; a miss reads the user's history and then waits for the provider
\* (or pacing), or finishes at once when no _search_products call has to wait
GetSections(uid) ==
    LET key == SectionsKey(uid, user[uid].tier)
        sections == SectionsFrom(uid, user[uid].searches)
        hit == Fresh(sections_cache, SECTIONS_TTL, key, now)
        looked == CacheGetStore(sections_cache, SECTIONS_TTL, key, now)
        Returns(v, cached) ==
            ret' = [NoCall EXCEPT !.op = "sections", !.user = uid, !.at = now,
                        !.key = key, !.existed = cached, !.version = v.version,
                        !.floor = invalidated[uid]]
    IN  /\ steps < MaxUserSteps
        /\ generation[uid].pc = "idle"
        /\ steps' = steps + 1
        /\ IF hit
           THEN /\ Returns(sections_cache[key].value, TRUE)
                /\ sections_cache' = looked
                /\ generation' = generation
           ELSE \E suspended \in BOOLEAN :
                   IF suspended
                   THEN /\ generation' = [generation EXCEPT ![uid] =
                                             [pc |-> "suspended", key |-> key,
                                              version |-> sections.version,
                                              floor |-> invalidated[uid]]]
                        /\ sections_cache' = looked
                        /\ ret' = ret
                   ELSE /\ sections_cache' = CacheSet(looked, key, sections, now)
                        /\ Returns(sections, FALSE)
                        /\ generation' = generation
        /\ UNCHANGED <<now, lastSet, swept, quotaVars, rateVars, searchVars, recVars,
                       user, search_call, invalidated, provVars>>

\* the suspended get_recommendation_sections call goes on to its end: the
\* sections built from the history it read are stored and returned
ResumeSections(uid) ==
    LET g == generation[uid] IN
    /\ steps < MaxUserSteps
    /\ g.pc = "suspended"
    /\ steps' = steps + 1
    /\ sections_cache' = CacheSet(sections_cache, g.key, SectionsFrom(uid, g.version), now)
    /\ generation' = [generation EXCEPT ![uid] = IdleHandler]
    /\ ret' = [NoCall EXCEPT !.op = "sections", !.user = uid, !.at = now,
                   !.key = g.key, !.existed = FALSE, !.version = g.version,
                   !.floor = g.floor]
    /\ UNCHANGED <<now, lastSet, swept, quotaVars, rateVars, searchVars, recVars,
                   user, search_call, invalidated, provVars>>

NextUser ==
    \/ UserTick
    \/ \E uid \in UserIds : SearchBegin(uid)
    \/ \E uid \in UserIds : SearchFinish(uid)
    \/ \E uid \in UserIds : GetSections(uid)
    \/ \E uid \in UserIds : ResumeSections(uid)

SpecUser == InitUser /\ [][NextUser]_vars

\* C28: a read of a user's sections that begins after
\* invalidate_user_recommendations(u) has returned does not return sections
\* generated from the user's history as it was before that invalidation,
\* also when a generation for u was suspended during the invalidation.
C28_NoStaleSectionsAfterInvalidate ==
    ret.op = "sections" => ret.version >= ret.floor

\* C30: the search limit check rejects a user only in the calendar month in
\* which the scan counter reached the tier's limit: a rejected user has a
\* counter at the limit that was last reset in the month of the check.
C30_BlockedOnlyWithinMonth ==
    (ret.op = "check_search_limit" /\ ~ret.allowed) =>
        /\ ret.limit # -1
        /\ ret.count >= ret.limit
        /\ user[ret.user].monthly_scans_reset_at # NoReset
        /\ MonthIndex(user[ret.user].monthly_scans_reset_at) = MonthIndex(ret.at)

====
